---- MODULE Spec2Model ----
(***************************************************************************)
(* Model of @beorn/logger (src/src/index.ts): the level threshold, the two *)
(* namespace filters, the span switch, the output sinks and the span       *)
(* lifecycle of the main side.                                             *)
(*                                                                         *)
(* Strings are sequences of one-character strings, so that startsWith,     *)
(* slice(1) and `-${e}` are computed character by character.               *)
(* A value of type T | null is <<>> for null and <<v>> for the value v.     *)
(* A JavaScript Set<string> is a set; where the code iterates it, the      *)
(* order is the one SetToSeq picks.                                        *)
(***************************************************************************)
EXTENDS Integers, Sequences, FiniteSets, TLC

\* ------------------------------------------------------------------ bounds
MaxFilterLen == 2
MaxSpans == 1
MaxClock == 1
MaxLoggers == 2
MaxTreeSpans == 2
MaxPosted == 4
MaxHandlers == 2
MaxWriters == 2

\* ------------------------------------------------------- optional values
NULL == <<>>
Some(v) == <<v>>
IsNull(o) == o = <<>>
Val(o) == o[1]

\* ------------------------------------------------------------- strings
Colon == ":"
Dash == "-"
Star == <<"*">>
StartsWith(s, p) == Len(p) <= Len(s) /\ SubSeq(s, 1, Len(p)) = p
Slice1(s) == SubSeq(s, 2, Len(s))
Range(s) == {s[i] : i \in 1..Len(s)}

RECURSIVE SetToSeq(_)
SetToSeq(S) == IF S = {} THEN <<>>
               ELSE LET x == CHOOSE y \in S : TRUE
                    IN <<x>> \o SetToSeq(S \ {x})

\* ---------------------------------------------------------- level filter
OutputLogLevels == {"trace", "debug", "info", "warn", "error"}
LogLevels == OutputLogLevels \cup {"silent"}

LOG_LEVEL_PRIORITY == [trace |-> 0, debug |-> 1, info |-> 2, warn |-> 3, error |-> 4, silent |-> 5]

\* ------------------------------------------------------------ identities
NsA == <<"a">>
NsAB == <<"a", "b">>
NsDashA == <<"-", "a">>
NsEmpty == <<>>
SegB == <<"b">>
SegC == <<"c">>
SegX == <<"x">>

\* `${name}:${namespace}`, or name when the segment is omitted or empty
ChildName(name, seg) == IF IsNull(seg) \/ Val(seg) = <<>> THEN name
                        ELSE name \o <<Colon>> \o Val(seg)

SpanRoots == {NsA}
Segments == {SegB}

\* the names the log calls of the model are made on
Namespaces == {NsA, NsAB, NsDashA, NsEmpty,
               ChildName(NsA, Some(SegB)), ChildName(NsA, Some(SegC)),
               ChildName(ChildName(NsA, Some(SegB)), Some(SegX))}

\* ------------------------------------------------------- filter patterns
PatA == <<"a">>
PatNotAB == <<"-", "a", ":", "b">>
PatDash == <<"-">>
PatNotDashA == <<"-", "-", "a">>
PatOne == <<"1">>

DebugPatterns == {PatA, PatNotAB, Star, PatDash, PatNotDashA}
TracePatterns == {PatA, PatNotAB, Star}

RECURSIVE SeqsUpTo(_, _)
SeqsUpTo(S, n) == IF n = 0 THEN {<<>>}
                  ELSE LET shorter == SeqsUpTo(S, n - 1)
                       IN shorter \cup {Append(q, x) : q \in shorter, x \in S}

\* string[] | null
DebugArgs == {NULL} \cup {Some(q) : q \in SeqsUpTo(DebugPatterns, MaxFilterLen)}
TraceArgs == {NULL} \cup {Some(q) : q \in SeqsUpTo(TracePatterns, MaxFilterLen)}
\* the filters set while spans are running
SpanFilterArgs == {NULL, Some(<<PatA>>), Some(<<PatNotAB>>)}

VARIABLES
  currentLogLevel,   \* the level threshold
  spansEnabled,      \* the span switch
  traceFilter,       \* Set<string> | null
  debugIncludes,     \* Set<string> | null
  debugExcludes,     \* Set<string> | null
  writers,           \* the registered writers, in registration order
  suppressConsole,
  outputMode,
  spanIdCounter,
  traceIdCounter,
  spans,             \* the MutableSpanData of every span created, in creation order
  spanRecords,       \* per span, how many span records were formatted for it
  now,               \* Date.now()
  formatted,         \* the records the last operation formatted
  written,           \* the writes the last operation made, in order
  op,                \* the last operation called, with its arguments
  loggers,           \* the Logger objects of createLogger, .logger() and .span()
  workerSpanIdCounter,
  workerTraceIdCounter,
  workerLoggers,     \* the Logger objects of createWorkerLogger
  workerSpans,       \* the closure state of every span of a worker logger
  posted,            \* the calls of postMessage, in order
  collectSpans,      \* the span collection switch
  collectedSpans,    \* the span collection
  consoleMethods,    \* console[level] of the six forwarded levels, on the worker
  originalConsole,   \* the saved console | null
  handlers           \* the message handlers created on the main thread

vars == <<currentLogLevel, spansEnabled, traceFilter, debugIncludes, debugExcludes,
          writers, suppressConsole, outputMode, spanIdCounter, traceIdCounter,
          spans, spanRecords, now, formatted, written, op, loggers,
          workerSpanIdCounter, workerTraceIdCounter, workerLoggers, workerSpans, posted,
          collectSpans, collectedSpans, consoleMethods, originalConsole, handlers>>

configVars == <<currentLogLevel, spansEnabled, traceFilter, debugIncludes, debugExcludes>>
sinkVars == <<writers, suppressConsole, outputMode>>
spanVars == <<spanIdCounter, traceIdCounter, spans, spanRecords>>
relayVars == <<workerSpanIdCounter, workerTraceIdCounter, workerLoggers, workerSpans, posted>>
collectVars == <<collectSpans, collectedSpans>>
consoleVars == <<consoleMethods, originalConsole>>
hostVars == <<collectVars, consoleVars, handlers>>

\* ------------------------------------------------------------ filter engine
\* the comparison with > in place of >=
shouldLogStrict(level) == LOG_LEVEL_PRIORITY[level] > LOG_LEVEL_PRIORITY[currentLogLevel]

shouldLog(level) == LOG_LEVEL_PRIORITY[level] >= LOG_LEVEL_PRIORITY[currentLogLevel]

\* the loop of matchesNamespaceSet with startsWith(filter) in place of
\* startsWith(filter + ":")
RECURSIVE MatchLoopBarePrefix(_, _)
MatchLoopBarePrefix(namespace, rest) ==
  IF rest = <<>> THEN FALSE
  ELSE IF namespace = Head(rest) \/ StartsWith(namespace, Head(rest)) THEN TRUE
  ELSE MatchLoopBarePrefix(namespace, Tail(rest))

\* the loop of matchesNamespaceSet without its startsWith alternative
RECURSIVE MatchLoopExactOnly(_, _)
MatchLoopExactOnly(namespace, rest) ==
  IF rest = <<>> THEN FALSE
  ELSE IF namespace = Head(rest) THEN TRUE
  ELSE MatchLoopExactOnly(namespace, Tail(rest))

RECURSIVE MatchLoop(_, _)
MatchLoop(namespace, rest) ==
  IF rest = <<>> THEN FALSE
  ELSE IF namespace = Head(rest) \/ StartsWith(namespace, Head(rest) \o <<Colon>>) THEN TRUE
  ELSE MatchLoop(namespace, Tail(rest))

matchesNamespaceSet(namespace, set) ==
  IF Star \in set THEN TRUE ELSE MatchLoop(namespace, SetToSeq(set))

\* shouldTraceNamespace, had the trace filter's "-" patterns been excludes
TraceNamespaceAllowedWithExcludes(namespace, enabled, filter) ==
  IF ~enabled THEN FALSE
  ELSE IF IsNull(filter) THEN TRUE
  ELSE LET excludes == {Slice1(f) : f \in {g \in Val(filter) : StartsWith(g, <<Dash>>)}}
           includes == {g \in Val(filter) : ~StartsWith(g, <<Dash>>)}
       IN IF excludes # {} /\ matchesNamespaceSet(namespace, excludes) THEN FALSE
          ELSE includes = {} \/ matchesNamespaceSet(namespace, includes)

TraceNamespaceAllowed(namespace, enabled, filter) ==
  IF ~enabled THEN FALSE
  ELSE IF IsNull(filter) THEN TRUE
  ELSE matchesNamespaceSet(namespace, Val(filter))

shouldTraceNamespace(namespace) == TraceNamespaceAllowed(namespace, spansEnabled, traceFilter)

\* shouldDebugNamespace with the includes consulted before the excludes
DebugNamespaceIncludesFirst(namespace, includes, excludes) ==
  IF IsNull(includes) /\ IsNull(excludes) THEN TRUE
  ELSE IF ~IsNull(includes) /\ matchesNamespaceSet(namespace, Val(includes)) THEN TRUE
  ELSE IF ~IsNull(excludes) /\ matchesNamespaceSet(namespace, Val(excludes)) THEN FALSE
  ELSE IsNull(includes)

DebugNamespaceAllowed(namespace, includes, excludes) ==
  IF IsNull(includes) /\ IsNull(excludes) THEN TRUE
  ELSE IF ~IsNull(excludes) /\ matchesNamespaceSet(namespace, Val(excludes)) THEN FALSE
  ELSE IF ~IsNull(includes) THEN matchesNamespaceSet(namespace, Val(includes))
  ELSE TRUE

shouldDebugNamespace(namespace) == DebugNamespaceAllowed(namespace, debugIncludes, debugExcludes)

\* ------------------------------------------------- filter configuration
IsExcludePattern(ns) == StartsWith(ns, <<Dash>>)

\* the includes / excludes lists setDebugFilter's loop builds
ParseIncludes(namespaces) == SelectSeq(namespaces, LAMBDA ns : ~IsExcludePattern(ns))
ParseExcludes(namespaces) ==
  LET marked == SelectSeq(namespaces, IsExcludePattern)
  IN [i \in 1..Len(marked) |-> Slice1(marked[i])]

SetOrNull(list) == IF Len(list) > 0 THEN Some(Range(list)) ELSE NULL

\* the auto-lowering without its comparison
LoweredLevelAlways(level) == "debug"

LoweredLevel(level) ==
  IF LOG_LEVEL_PRIORITY[level] > LOG_LEVEL_PRIORITY["debug"] THEN "debug" ELSE level

getTraceFilter == IF IsNull(traceFilter) THEN NULL ELSE Some(SetToSeq(Val(traceFilter)))

\* getDebugFilter without the "-" put back before the excludes
getDebugFilterUnmarked ==
  IF IsNull(debugIncludes) /\ IsNull(debugExcludes) THEN NULL
  ELSE LET inc == IF IsNull(debugIncludes) THEN <<>> ELSE SetToSeq(Val(debugIncludes))
           exc == IF IsNull(debugExcludes) THEN <<>> ELSE SetToSeq(Val(debugExcludes))
       IN Some(inc \o exc)

getDebugFilter ==
  IF IsNull(debugIncludes) /\ IsNull(debugExcludes) THEN NULL
  ELSE LET inc == IF IsNull(debugIncludes) THEN <<>> ELSE SetToSeq(Val(debugIncludes))
           exc == IF IsNull(debugExcludes) THEN <<>> ELSE SetToSeq(Val(debugExcludes))
       IN Some(inc \o [i \in 1..Len(exc) |-> <<Dash>> \o exc[i]])

\* {}
NoProps == <<>>

\* { ...props, ...childProps } with the parent's value kept on a key collision
SpreadParentWins(props, childProps) ==
  [k \in DOMAIN props \cup DOMAIN childProps |->
     IF k \in DOMAIN props THEN props[k] ELSE childProps[k]]

\* { ...props, ...childProps }
Spread(props, childProps) ==
  [k \in DOMAIN props \cup DOMAIN childProps |->
     IF k \in DOMAIN childProps THEN childProps[k] ELSE props[k]]

\* ------------------------------------------------------------------ sinks
LogRecord(level, namespace) == [level |-> level, name |-> namespace, data |-> <<>>]
\* { duration, span_id, trace_id, parent_id, ...mergedProps, ...attrs }
SpanRecord(namespace, duration, sp) ==
  [level |-> "span", name |-> namespace,
   data |-> Spread(Spread([duration |-> duration, span_id |-> sp.id,
                           trace_id |-> sp.traceId, parent_id |-> sp.parentId],
                          sp.props),
                   sp.attrs)]

\* the writer functions: 1 to 3 only receive; 4 calls, when it is invoked, the
\* unsubscribe function addWriter returned for it, 5 the one returned for 1
WriterCancels == <<NULL, NULL, NULL, Some(4), Some(1)>>
PassiveWriters == {w \in DOMAIN WriterCancels : IsNull(WriterCancels[w])}
ReentrantWriters == DOMAIN WriterCancels \ PassiveWriters

\* writers.indexOf(writer), from 1; 0 when absent
IndexOf(array, writer) ==
  IF \E j \in 1..Len(array) : array[j] = writer
  THEN CHOOSE j \in 1..Len(array) :
         array[j] = writer /\ \A k \in 1..(j - 1) : array[k] # writer
  ELSE 0

\* const idx = writers.indexOf(writer); if (idx !== -1) writers.splice(idx, 1)
Unsubscribed(array, writer) ==
  LET idx == IndexOf(array, writer)
  IN IF idx = 0 THEN array
     ELSE [j \in 1..(Len(array) - 1) |-> IF j < idx THEN array[j] ELSE array[j + 1]]

\* for (const w of writers) w(formatted, level): the array iterator reads
\* writers.length and writers[index] anew at every step
RECURSIVE WriterLoop(_, _, _)
WriterLoop(array, index, called) ==
  IF index > Len(array) THEN [writers |-> array, called |-> called]
  ELSE WriterLoop(IF IsNull(WriterCancels[array[index]]) THEN array
                  ELSE Unsubscribed(array, Val(WriterCancels[array[index]])),
                  index + 1, Append(called, array[index]))

\* the writers the loop called, in order, and the array it left
WritersCalled == WriterLoop(writers, 1, <<>>).called
WritersLeft == WriterLoop(writers, 1, <<>>).writers

WriterWrites(rec) ==
  [i \in 1..Len(WritersCalled) |-> [sink |-> <<"writer", WritersCalled[i]>>, rec |-> rec]]

ConsoleMethod(level) ==
  CASE level \in {"trace", "debug"} -> "debug"
    [] level = "info" -> "info"
    [] level = "warn" -> "warn"
    [] level = "error" -> "error"

\* writeLog, had it consulted the span switch and the trace filter
LogFormattedTraced(namespace, level) ==
  IF ~shouldLog(level) THEN <<>>
  ELSE IF ~shouldTraceNamespace(namespace) THEN <<>>
  ELSE IF ~shouldDebugNamespace(namespace) THEN <<>>
  ELSE <<LogRecord(level, namespace)>>

\* the records writeLog formats
LogFormatted(namespace, level) ==
  IF ~shouldLog(level) THEN <<>>
  ELSE IF ~shouldDebugNamespace(namespace) THEN <<>>
  ELSE <<LogRecord(level, namespace)>>

\* the writes of writeLog, had the return for suppressConsole and
\* "writers-only" come before the loop over the writers
LogWritesConsoleFirst(namespace, level) ==
  IF LogFormatted(namespace, level) = <<>> THEN <<>>
  ELSE LET rec == LogRecord(level, namespace)
       IN IF suppressConsole \/ outputMode = "writers-only" THEN <<>>
          ELSE WriterWrites(rec) \o
               (IF outputMode = "stderr" THEN <<[sink |-> <<"stderr">>, rec |-> rec]>>
                ELSE <<[sink |-> <<"console", ConsoleMethod(level)>>, rec |-> rec]>>)

\* the writes writeLog makes
LogWrites(namespace, level) ==
  IF LogFormatted(namespace, level) = <<>> THEN <<>>
  ELSE LET rec == LogRecord(level, namespace)
       IN WriterWrites(rec) \o
          (IF suppressConsole \/ outputMode = "writers-only" THEN <<>>
           ELSE IF outputMode = "stderr" THEN <<[sink |-> <<"stderr">>, rec |-> rec]>>
           ELSE <<[sink |-> <<"console", ConsoleMethod(level)>>, rec |-> rec]>>)

\* writeSpan, had it applied the level threshold to spans
SpanFormattedAboveThreshold(namespace, duration, sp) ==
  IF ~shouldLog("info") THEN <<>>
  ELSE IF ~shouldTraceNamespace(namespace) THEN <<>>
  ELSE IF ~shouldDebugNamespace(namespace) THEN <<>>
  ELSE <<SpanRecord(namespace, duration, sp)>>

\* the records writeSpan formats
SpanFormatted(namespace, duration, sp) ==
  IF ~shouldTraceNamespace(namespace) THEN <<>>
  ELSE IF ~shouldDebugNamespace(namespace) THEN <<>>
  ELSE <<SpanRecord(namespace, duration, sp)>>

\* the writes writeSpan makes
SpanWrites(namespace, duration, sp) ==
  IF SpanFormatted(namespace, duration, sp) = <<>> THEN <<>>
  ELSE LET rec == SpanRecord(namespace, duration, sp)
       IN WriterWrites(rec) \o
          (IF suppressConsole THEN <<>> ELSE <<[sink |-> <<"stderr">>, rec |-> rec]>>)

Call(name, args) == [name |-> name, args |-> args]
Quiet == formatted' = <<>> /\ written' = <<>>
\* what the writer loop of an operation leaves of the writers, when it ran
Dispatched ==
  /\ writers' = IF formatted' = <<>> THEN writers ELSE WritersLeft
  /\ UNCHANGED <<suppressConsole, outputMode>>

\* the console methods forwardConsole replaces, and the method the runtime
\* provides for a level
ConsoleLevels == {"log", "debug", "info", "warn", "error", "trace"}
Native(level) == <<"native", level>>

\* ---------------------------------------------------------- initial state
\* process.env as read when the module loads; a list is the value split at
\* "," and trimmed, NULL an unset or empty variable
EnvLogLevels == LogLevels \cup {"unset"}
EnvTrace == {NULL, Some(<<PatOne>>), Some(<<PatA>>)}
EnvDebug == {NULL, Some(<<PatOne>>), Some(<<PatA>>), Some(<<PatNotAB>>)}

EnvIsFlag(env) == Val(env) = <<PatOne>>
EnvIncludes(parts) ==
  LET includes == ParseIncludes(parts)
  IN IF Len(includes) > 0
     THEN Some(IF \E i \in 1..Len(includes) : includes[i] \in {Star, PatOne}
               THEN {Star} ELSE Range(includes))
     ELSE NULL

Init ==
  \E envLogLevel \in EnvLogLevels, traceEnv \in EnvTrace, debugEnv \in EnvDebug :
    /\ currentLogLevel =
         LET fromEnv == IF envLogLevel \in LogLevels THEN envLogLevel ELSE "info"
         IN IF IsNull(debugEnv) THEN fromEnv ELSE LoweredLevel(fromEnv)
    /\ spansEnabled = ~IsNull(traceEnv)
    /\ traceFilter = IF IsNull(traceEnv) \/ EnvIsFlag(traceEnv) THEN NULL
                     ELSE Some(Range(Val(traceEnv)))
    /\ debugIncludes = IF IsNull(debugEnv) THEN NULL ELSE EnvIncludes(Val(debugEnv))
    /\ debugExcludes = IF IsNull(debugEnv) THEN NULL ELSE SetOrNull(ParseExcludes(Val(debugEnv)))
    /\ writers = <<>>
    /\ suppressConsole = FALSE
    /\ outputMode = "console"
    /\ spanIdCounter = 0
    /\ traceIdCounter = 0
    /\ spans = <<>>
    /\ spanRecords = <<>>
    /\ now = 0
    /\ formatted = <<>>
    /\ written = <<>>
    /\ op = Call("load", <<>>)
    /\ loggers = <<>>
    /\ workerSpanIdCounter = 0
    /\ workerTraceIdCounter = 0
    /\ workerLoggers = <<>>
    /\ workerSpans = <<>>
    /\ posted = <<>>
    /\ collectSpans = FALSE
    /\ collectedSpans = <<>>
    /\ consoleMethods = [level \in ConsoleLevels |-> Native(level)]
    /\ originalConsole = NULL
    /\ handlers = <<>>

\* ------------------------------------------------------------ sink calls
\* addWriter(writer)
AddWriter(writer) ==
  /\ Len(writers) < MaxWriters
  /\ writers' = Append(writers, writer)
  /\ Quiet /\ op' = Call("addWriter", <<writer>>)
  /\ UNCHANGED <<configVars, suppressConsole, outputMode, hostVars, loggers, relayVars,
                 spanVars, now>>

\* the function addWriter(writer) returned, called
Unsubscribe(writer) ==
  /\ writers' = Unsubscribed(writers, writer)
  /\ Quiet /\ op' = Call("unsubscribe", <<writer>>)
  /\ UNCHANGED <<configVars, suppressConsole, outputMode, hostVars, loggers, relayVars,
                 spanVars, now>>

SetSuppressConsole(value) ==
  /\ suppressConsole' = value
  /\ Quiet /\ op' = Call("setSuppressConsole", <<value>>)
  /\ UNCHANGED <<configVars, writers, outputMode, hostVars, loggers, relayVars, spanVars, now>>

OutputModes == {"console", "stderr", "writers-only"}

SetOutputMode(mode) ==
  /\ outputMode' = mode
  /\ Quiet /\ op' = Call("setOutputMode", <<mode>>)
  /\ UNCHANGED <<configVars, writers, suppressConsole, hostVars, loggers, relayVars,
                 spanVars, now>>

\* ------------------------------------------------------ configuration calls
SetLogLevel(level) ==
  /\ currentLogLevel' = level
  /\ Quiet /\ op' = Call("setLogLevel", <<>>)
  /\ UNCHANGED <<spansEnabled, traceFilter, debugIncludes, debugExcludes, sinkVars, hostVars, loggers, relayVars, spanVars, now>>

EnableSpans ==
  /\ spansEnabled' = TRUE
  /\ Quiet /\ op' = Call("enableSpans", <<>>)
  /\ UNCHANGED <<currentLogLevel, traceFilter, debugIncludes, debugExcludes, sinkVars, hostVars, loggers, relayVars, spanVars, now>>

DisableSpans ==
  /\ spansEnabled' = FALSE
  /\ Quiet /\ op' = Call("disableSpans", <<>>)
  /\ UNCHANGED <<currentLogLevel, traceFilter, debugIncludes, debugExcludes, sinkVars, hostVars, loggers, relayVars, spanVars, now>>

\* setTraceFilter without spansEnabled = true
SetTraceFilterKeepSwitch(namespaces) ==
  /\ traceFilter' = IF IsNull(namespaces) \/ Len(Val(namespaces)) = 0
                    THEN NULL ELSE Some(Range(Val(namespaces)))
  /\ Quiet /\ op' = Call("setTraceFilter", <<spansEnabled>>)
  /\ UNCHANGED <<currentLogLevel, spansEnabled, debugIncludes, debugExcludes, sinkVars, hostVars, loggers, relayVars, spanVars, now>>

\* setTraceFilter, had clearing the filter switched spans off
SetTraceFilterClearDisables(namespaces) ==
  /\ IF IsNull(namespaces) \/ Len(Val(namespaces)) = 0
     THEN traceFilter' = NULL /\ spansEnabled' = FALSE
     ELSE traceFilter' = Some(Range(Val(namespaces))) /\ spansEnabled' = TRUE
  /\ Quiet /\ op' = Call("setTraceFilter", <<spansEnabled>>)
  /\ UNCHANGED <<currentLogLevel, debugIncludes, debugExcludes, sinkVars, hostVars, loggers, relayVars, spanVars, now>>

SetTraceFilter(namespaces) ==
  /\ IF IsNull(namespaces) \/ Len(Val(namespaces)) = 0
     THEN traceFilter' = NULL /\ UNCHANGED spansEnabled
     ELSE traceFilter' = Some(Range(Val(namespaces))) /\ spansEnabled' = TRUE
  /\ Quiet /\ op' = Call("setTraceFilter", <<spansEnabled>>)
  /\ UNCHANGED <<currentLogLevel, debugIncludes, debugExcludes, sinkVars, hostVars, loggers, relayVars, spanVars, now>>

\* the assignments of setDebugFilter
DebugFilterSet(namespaces) ==
  IF IsNull(namespaces) \/ Len(Val(namespaces)) = 0
  THEN /\ debugIncludes' = NULL
       /\ debugExcludes' = NULL
       /\ UNCHANGED currentLogLevel
  ELSE /\ debugIncludes' = SetOrNull(ParseIncludes(Val(namespaces)))
       /\ debugExcludes' = SetOrNull(ParseExcludes(Val(namespaces)))
       /\ currentLogLevel' = LoweredLevel(currentLogLevel)

SetDebugFilter(namespaces) ==
  /\ DebugFilterSet(namespaces)
  /\ Quiet /\ op' = Call("setDebugFilter", <<currentLogLevel>>)
  /\ UNCHANGED <<spansEnabled, traceFilter, sinkVars, hostVars, loggers, relayVars, spanVars, now>>

\* setDebugFilter(getDebugFilter())
ReapplyDebugFilter ==
  /\ DebugFilterSet(getDebugFilter)
  /\ Quiet /\ op' = Call("setDebugFilter(getDebugFilter())", <<>>)
  /\ UNCHANGED <<spansEnabled, traceFilter, sinkVars, hostVars, loggers, relayVars, spanVars, now>>

\* ----------------------------------------------------------------- logging
\* what reading log[level] on the proxy createLogger returns gives
MethodDefined(level) == ~(LOG_LEVEL_PRIORITY[level] < LOG_LEVEL_PRIORITY[currentLogLevel])

\* log[level]?.(msg) on createLogger(namespace) (conditional), or log[level](msg)
\* on a logger made by .logger() / .span() (plain)
LogCall(kind, level, namespace) ==
  /\ IF kind = "conditional" /\ ~MethodDefined(level)
     THEN Quiet
     ELSE /\ formatted' = LogFormatted(namespace, level)
          /\ written' = LogWrites(namespace, level)
  /\ Dispatched
  /\ op' = Call("log", <<level, namespace>>)
  /\ UNCHANGED <<configVars, hostVars, loggers, relayVars, spanVars, now>>

\* ------------------------------------------------------------------ spans
Digits36 == <<"0", "1", "2", "3", "4", "5", "6", "7", "8", "9", "a", "b", "c", "d", "e", "f",
              "g", "h", "i", "j", "k", "l", "m", "n", "o", "p", "q", "r", "s", "t", "u", "v",
              "w", "x", "y", "z">>

\* n.toString(36)
RECURSIVE ToString36(_)
ToString36(n) ==
  IF n < Len(Digits36) THEN <<Digits36[n + 1]>>
  ELSE ToString36(n \div Len(Digits36)) \o <<Digits36[(n % Len(Digits36)) + 1]>>

\* generateSpanId without the counter in the id
SpanIdWithoutCounter(n) == <<"s", "p", "_">>

\* `sp_${n.toString(36)}` and `tr_${n.toString(36)}`
SpanId(n) == <<"s", "p", "_">> \o ToString36(n)
TraceId(n) == <<"t", "r", "_">> \o ToString36(n)

\* the logger a span is created from: createLogger(root), or the span logger
\* of spans[from]
ParentName(from, root) == IF from = 0 THEN root ELSE spans[from].name
ParentSpanId(from) == IF from = 0 THEN NULL ELSE Some(spans[from].id)
ParentTraceId(from) == IF from = 0 THEN NULL ELSE Some(spans[from].traceId)

\* logger.span(seg), had it written a record for the new span when permitted
SpanCreateAnnounced(from, root, seg) ==
  /\ Len(spans) < MaxSpans
  /\ LET inherited == ParentTraceId(from)
         newSpanId == SpanId(spanIdCounter + 1)
         newTraceId == IF IsNull(inherited) THEN TraceId(traceIdCounter + 1) ELSE Val(inherited)
     IN /\ spanIdCounter' = spanIdCounter + 1
        /\ traceIdCounter' = IF IsNull(inherited) THEN traceIdCounter + 1 ELSE traceIdCounter
        /\ spans' = Append(spans, [name |-> ChildName(ParentName(from, root), seg),
                                   props |-> IF from = 0 THEN NoProps ELSE spans[from].props,
                                   id |-> newSpanId,
                                   traceId |-> newTraceId,
                                   parentId |-> ParentSpanId(from),
                                   startTime |-> now,
                                   endTime |-> NULL,
                                   duration |-> NULL,
                                   attrs |-> NoProps,
                                   origin |-> IF from = 0 THEN NULL ELSE Some(<<"span", from>>)])
        /\ spanRecords' = Append(spanRecords, 0)
  /\ formatted' = SpanFormatted(spans'[Len(spans')].name, 0, spans'[Len(spans')])
  /\ written' = SpanWrites(spans'[Len(spans')].name, 0, spans'[Len(spans')])
  /\ op' = Call("span", <<from>>)
  /\ UNCHANGED <<configVars, sinkVars, hostVars, loggers, relayVars, now>>

\* logger.span(seg)
SpanCreate(from, root, seg) ==
  /\ Len(spans) < MaxSpans
  /\ LET inherited == ParentTraceId(from)
         newSpanId == SpanId(spanIdCounter + 1)
         newTraceId == IF IsNull(inherited) THEN TraceId(traceIdCounter + 1) ELSE Val(inherited)
     IN /\ spanIdCounter' = spanIdCounter + 1
        /\ traceIdCounter' = IF IsNull(inherited) THEN traceIdCounter + 1 ELSE traceIdCounter
        /\ spans' = Append(spans, [name |-> ChildName(ParentName(from, root), seg),
                                   props |-> IF from = 0 THEN NoProps ELSE spans[from].props,
                                   id |-> newSpanId,
                                   traceId |-> newTraceId,
                                   parentId |-> ParentSpanId(from),
                                   startTime |-> now,
                                   endTime |-> NULL,
                                   duration |-> NULL,
                                   attrs |-> NoProps,
                                   origin |-> IF from = 0 THEN NULL ELSE Some(<<"span", from>>)])
        /\ spanRecords' = Append(spanRecords, 0)
  /\ Quiet /\ op' = Call("span", <<from>>)
  /\ UNCHANGED <<configVars, sinkVars, hostVars, loggers, relayVars, now>>

\* Symbol.dispose without its "already disposed" return
DisposeUnguarded(i) ==
  LET duration == now - spans[i].startTime
  IN /\ spans' = [spans EXCEPT ![i].endTime = Some(now), ![i].duration = Some(duration)]
     /\ formatted' = SpanFormatted(spans[i].name, duration, spans[i])
     /\ written' = SpanWrites(spans[i].name, duration, spans[i])
     /\ spanRecords' = [spanRecords EXCEPT ![i] = @ + Len(formatted')]

\* spanLogger[Symbol.dispose]()
Dispose(i) ==
  IF ~IsNull(spans[i].endTime)
  THEN Quiet /\ UNCHANGED <<spans, spanRecords>>
  ELSE LET duration == now - spans[i].startTime
       IN /\ spans' = [spans EXCEPT ![i].endTime = Some(now), ![i].duration = Some(duration)]
          /\ formatted' = SpanFormatted(spans[i].name, duration, spans[i])
          /\ written' = SpanWrites(spans[i].name, duration, spans[i])
          /\ spanRecords' = [spanRecords EXCEPT ![i] = @ + Len(formatted')]

SpanDispose(i) ==
  /\ Dispose(i)
  /\ Dispatched
  /\ op' = Call("dispose", <<i>>)
  /\ UNCHANGED <<configVars, hostVars, loggers, relayVars, spanIdCounter, traceIdCounter, now>>

\* spanLogger.end()
SpanEnd(i) ==
  /\ IF IsNull(spans[i].endTime)
     THEN Dispose(i)
     ELSE Quiet /\ UNCHANGED <<spans, spanRecords>>
  /\ Dispatched
  /\ op' = Call("end", <<i>>)
  /\ UNCHANGED <<configVars, hostVars, loggers, relayVars, spanIdCounter, traceIdCounter, now>>

\* startCollecting()
StartCollecting ==
  /\ collectSpans' = TRUE
  /\ collectedSpans' = <<>>
  /\ Quiet /\ op' = Call("startCollecting", <<>>)
  /\ UNCHANGED <<configVars, sinkVars, consoleVars, handlers, loggers, relayVars, spanVars, now>>

\* stopCollecting(), which returns [...collectedSpans]
StopCollecting ==
  /\ collectSpans' = FALSE
  /\ Quiet /\ op' = Call("stopCollecting", <<collectedSpans>>)
  /\ UNCHANGED <<configVars, sinkVars, collectedSpans, consoleVars, handlers, loggers,
                 relayVars, spanVars, now>>

\* getCollectedSpans(), which returns [...collectedSpans]
GetCollectedSpans ==
  /\ Quiet /\ op' = Call("getCollectedSpans", <<collectedSpans>>)
  /\ UNCHANGED <<configVars, sinkVars, hostVars, loggers, relayVars, spanVars, now>>

\* clearCollectedSpans()
ClearCollectedSpans ==
  /\ collectedSpans' = <<>>
  /\ Quiet /\ op' = Call("clearCollectedSpans", <<>>)
  /\ UNCHANGED <<configVars, sinkVars, collectSpans, consoleVars, handlers, loggers,
                 relayVars, spanVars, now>>

\* time passes
Tick ==
  /\ now < MaxClock
  /\ now' = now + 1
  /\ Quiet /\ op' = Call("tick", <<>>)
  /\ UNCHANGED <<configVars, sinkVars, hostVars, loggers, relayVars, spanVars>>

\* resetIds()
ResetIds ==
  /\ spanIdCounter' = 0
  /\ traceIdCounter' = 0
  /\ Quiet /\ op' = Call("resetIds", <<>>)
  /\ UNCHANGED <<configVars, sinkVars, hostVars, loggers, relayVars, spans, spanRecords, now>>

\* ---------------------------------------------------------- logger objects
\* A Logger object is the record of what createLoggerImpl closes over; origin
\* is the logger whose .logger() made it. A logger is referred to by a handle:
\* <<"logger", l>> is loggers[l], <<"span", i>> the span logger of spans[i].
createLoggerImpl(name, props, spanMeta, parentSpanId, traceId, origin) ==
  [name |-> name, props |-> props, spanMeta |-> spanMeta,
   parentSpanId |-> parentSpanId, traceId |-> traceId, origin |-> origin]

createPlainLogger(name, props) == createLoggerImpl(name, props, NULL, NULL, NULL, NULL)

SpanLoggerOf(i) ==
  createLoggerImpl(spans[i].name, spans[i].props, Some(i),
                   Some(spans[i].id), Some(spans[i].traceId), NULL)

LoggerHandle(l) == <<"logger", l>>
SpanHandle(i) == <<"span", i>>
Handles == {LoggerHandle(l) : l \in 1..Len(loggers)} \cup {SpanHandle(i) : i \in 1..Len(spans)}
LoggerAt(h) == IF h[1] = "span" THEN SpanLoggerOf(h[2]) ELSE loggers[h[2]]

\* logger.logger(), had it made the child with createPlainLogger's nulls
LoggerMethodDetached(h, namespace, childProps) ==
  LET parent == LoggerAt(h)
  IN createLoggerImpl(ChildName(parent.name, namespace), Spread(parent.props, childProps),
                      NULL, NULL, NULL, Some(h))

\* logger.logger(namespace, childProps)
LoggerMethod(h, namespace, childProps) ==
  LET parent == LoggerAt(h)
  IN createLoggerImpl(ChildName(parent.name, namespace), Spread(parent.props, childProps),
                      NULL, parent.parentSpanId, parent.traceId, Some(h))

\* newSpanData of logger.span(namespace, childProps), with the childName and the
\* mergedProps its span logger closes over
SpanMethod(h, namespace, childProps) ==
  LET parent == LoggerAt(h)
  IN [name |-> ChildName(parent.name, namespace),
      props |-> Spread(parent.props, childProps),
      id |-> SpanId(spanIdCounter + 1),
      traceId |-> IF IsNull(parent.traceId) THEN TraceId(traceIdCounter + 1)
                  ELSE Val(parent.traceId),
      parentId |-> parent.parentSpanId,
      startTime |-> now,
      endTime |-> NULL,
      duration |-> NULL,
      attrs |-> NoProps,
      origin |-> Some(h)]

\* createLogger(name, props)
CreateLogger(name, props) ==
  /\ Len(loggers) + Len(workerLoggers) < MaxLoggers
  /\ loggers' = Append(loggers, createPlainLogger(name, props))
  /\ Quiet /\ op' = Call("createLogger", <<name, props>>)
  /\ UNCHANGED <<configVars, sinkVars, hostVars, spanVars, relayVars, now>>

LoggerLogger(h, namespace, childProps) ==
  /\ Len(loggers) + Len(workerLoggers) < MaxLoggers
  /\ loggers' = Append(loggers, LoggerMethod(h, namespace, childProps))
  /\ Quiet /\ op' = Call("logger", <<h, namespace, childProps>>)
  /\ UNCHANGED <<configVars, sinkVars, hostVars, spanVars, relayVars, now>>

LoggerSpan(h, namespace, childProps) ==
  /\ Len(spans) + Len(workerSpans) < MaxTreeSpans
  /\ spanIdCounter' = spanIdCounter + 1
  /\ traceIdCounter' = IF IsNull(LoggerAt(h).traceId) THEN traceIdCounter + 1
                       ELSE traceIdCounter
  /\ spans' = Append(spans, SpanMethod(h, namespace, childProps))
  /\ spanRecords' = Append(spanRecords, 0)
  /\ Quiet /\ op' = Call("logger.span", <<h, namespace, childProps>>)
  /\ UNCHANGED <<configVars, sinkVars, hostVars, loggers, relayVars, now>>

\* what an assignment does when the [[Set]] of its target returns result:
\* code in strict mode (every module) throws on false, sloppy code goes on
AssignOutcome(result, strict) == IF ~result /\ strict THEN "TypeError" ELSE "returned"

\* logger.props[key] = value, props being frozen
PropsAssign(h, key, value, strict) ==
  /\ Quiet /\ op' = Call("props.set", <<h, key, AssignOutcome(FALSE, strict)>>)
  /\ UNCHANGED <<configVars, sinkVars, hostVars, spanVars, loggers, relayVars, now>>

\* ----------------------------------------------------------------- spanData
StructuralKeys == {"id", "traceId", "parentId", "startTime", "endTime", "duration"}
Undefined == <<"undefined">>

\* the members of the object createLoggerImpl builds
LoggerMethods == {"trace", "debug", "info", "warn", "error", "logger", "span", "child", "end"}
Function == <<"function">>
Value(v) == <<"value", v>>

\* target[prop] on a logger object without spanMeta
TargetGet(logger, prop) ==
  CASE prop \in LoggerMethods -> Function
    [] prop = "name" -> Value(logger.name)
    [] prop = "props" -> Value(logger.props)
    [] prop = "spanData" -> Value(NULL)
    [] OTHER -> Undefined

\* the get trap of createLogger's proxy with <= in place of <
ConditionalGetInclusive(logger, prop) ==
  IF /\ prop \in DOMAIN LOG_LEVEL_PRIORITY
     /\ prop # "silent"
     /\ LOG_LEVEL_PRIORITY[prop] <= LOG_LEVEL_PRIORITY[currentLogLevel]
  THEN Undefined
  ELSE TargetGet(logger, prop)

\* the get trap of createLogger's proxy
ConditionalGet(logger, prop) ==
  IF /\ prop \in DOMAIN LOG_LEVEL_PRIORITY
     /\ prop # "silent"
     /\ LOG_LEVEL_PRIORITY[prop] < LOG_LEVEL_PRIORITY[currentLogLevel]
  THEN Undefined
  ELSE TargetGet(logger, prop)

\* log[prop] read on loggers[l], a logger createLogger returned
ConditionalLoggers == {l \in 1..Len(loggers) : IsNull(loggers[l].origin)}

\* a logger .logger() returned is the object createLoggerImpl built, read directly
LoggerGet(l, prop) ==
  /\ Quiet
  /\ op' = Call("logger.get", <<l, prop, IF l \in ConditionalLoggers
                                         THEN ConditionalGet(loggers[l], prop)
                                         ELSE TargetGet(loggers[l], prop)>>)
  /\ UNCHANGED <<configVars, sinkVars, hostVars, spanVars, loggers, relayVars, now>>

\* the get trap with the duration always taken from the clock
ProxyGetLive(sp, key) ==
  CASE key = "id" -> sp.id
    [] key = "traceId" -> sp.traceId
    [] key = "parentId" -> sp.parentId
    [] key = "startTime" -> sp.startTime
    [] key = "endTime" -> sp.endTime
    [] key = "duration" -> now - sp.startTime
    [] OTHER -> IF key \in DOMAIN sp.attrs THEN sp.attrs[key] ELSE Undefined

\* the get trap of the proxy logger.spanData returns
ProxyGet(sp, key) ==
  CASE key = "id" -> sp.id
    [] key = "traceId" -> sp.traceId
    [] key = "parentId" -> sp.parentId
    [] key = "startTime" -> sp.startTime
    [] key = "endTime" -> sp.endTime
    [] key = "duration" -> IF ~IsNull(sp.endTime) THEN Val(sp.endTime) - sp.startTime
                           ELSE now - sp.startTime
    [] OTHER -> IF key \in DOMAIN sp.attrs THEN sp.attrs[key] ELSE Undefined

\* attrs[key] = value, had an attribute kept its first value
StoreOnce(attrs, key, value) ==
  [k \in DOMAIN attrs \cup {key} |-> IF k \in DOMAIN attrs THEN attrs[k] ELSE value]

\* attrs[key] = value
Store(attrs, key, value) ==
  [k \in DOMAIN attrs \cup {key} |-> IF k = key THEN value ELSE attrs[k]]

\* the set trap: what it returns, and the span it leaves
ProxySetResult(key) == key \notin StructuralKeys
ProxySet(sp, key, value) ==
  IF key \notin StructuralKeys THEN [sp EXCEPT !.attrs = Store(@, key, value)] ELSE sp

\* v = span.spanData[key]
SpanDataGet(i, key) ==
  /\ Quiet /\ op' = Call("spanData.get", <<i, key, ProxyGet(spans[i], key)>>)
  /\ UNCHANGED <<configVars, sinkVars, hostVars, spanVars, loggers, relayVars, now>>

\* span.spanData[key] = value
SpanDataSet(i, key, value, strict) ==
  /\ spans' = [spans EXCEPT ![i] = ProxySet(@, key, value)]
  /\ Quiet
  /\ op' = Call("spanData.set", <<i, key, AssignOutcome(ProxySetResult(key), strict)>>)
  /\ UNCHANGED <<configVars, sinkVars, hostVars, spanIdCounter, traceIdCounter, spanRecords,
                 loggers, relayVars, now>>

\* ------------------------------------------------------------ producer side
\* `wsp_${n.toString(36)}` and `wtr_${n.toString(36)}`
WorkerSpanId(n) == <<"w", "s", "p", "_">> \o ToString36(n)
WorkerTraceId(n) == <<"w", "t", "r", "_">> \o ToString36(n)

\* what createWorkerLogger(postMessage, namespace, props, options) closes over;
\* origin is the logger whose .logger() made it
createWorkerLogger(namespace, props, parentSpanId, traceId, origin) ==
  [name |-> namespace, props |-> props,
   parentSpanId |-> parentSpanId, traceId |-> traceId, origin |-> origin]

\* the childLogger of a span
WorkerSpanLoggerOf(i) ==
  createWorkerLogger(workerSpans[i].name, workerSpans[i].props,
                     Some(workerSpans[i].id), Some(workerSpans[i].traceId), NULL)

WorkerHandles == {LoggerHandle(l) : l \in 1..Len(workerLoggers)}
                   \cup {SpanHandle(i) : i \in 1..Len(workerSpans)}
WorkerLoggerAt(h) == IF h[1] = "span" THEN WorkerSpanLoggerOf(h[2]) ELSE workerLoggers[h[2]]

\* try { postMessage(...) } catch {}, had the catch let the exception through
PostOutcomeRethrown(fails) == IF fails THEN "raised" ELSE "returned"

\* try { postMessage(...) } catch {}: how the call of the logger ends
PostOutcome(fails) == "returned"

\* a call of postMessage: the message, and whether the call threw
Post(message, fails) == [message |-> message, threw |-> fails]

\* data ? { ...props, ...data } : Object.keys(props).length > 0 ? props : undefined
WorkerLogData(props, data) ==
  IF ~IsNull(data) THEN Some(Spread(props, Val(data)))
  ELSE IF DOMAIN props # {} THEN Some(props)
  ELSE NULL

LogMessage(logger, level, message, data) ==
  [type |-> "log", level |-> level, namespace |-> logger.name, message |-> message,
   data |-> WorkerLogData(logger.props, data), timestamp |-> now]

StartMessage(sp) ==
  [type |-> "span", event |-> "start", namespace |-> sp.name, spanId |-> sp.id,
   traceId |-> sp.traceId, parentId |-> sp.parentId, startTime |-> sp.startTime,
   endTime |-> NULL, duration |-> NULL, props |-> sp.props, spanData |-> NoProps,
   timestamp |-> now]

EndMessage(sp) ==
  [type |-> "span", event |-> "end", namespace |-> sp.name, spanId |-> sp.id,
   traceId |-> sp.traceId, parentId |-> sp.parentId, startTime |-> sp.startTime,
   endTime |-> Some(now), duration |-> Some(now - sp.startTime), props |-> sp.props,
   spanData |-> sp.attrs, timestamp |-> now]

\* createWorkerLogger(postMessage, name, props)
CreateWorkerLogger(name, props) ==
  /\ Len(loggers) + Len(workerLoggers) < MaxLoggers
  /\ workerLoggers' = Append(workerLoggers, createWorkerLogger(name, props, NULL, NULL, NULL))
  /\ Quiet /\ op' = Call("createWorkerLogger", <<name, props>>)
  /\ UNCHANGED <<configVars, sinkVars, hostVars, spanVars, loggers, workerSpanIdCounter,
                 workerTraceIdCounter, workerSpans, posted, now>>

\* logger.logger(childNamespace, childProps) of a worker logger
WorkerLoggerMethod(h, childNamespace, childProps) ==
  LET parent == WorkerLoggerAt(h)
  IN createWorkerLogger(ChildName(parent.name, childNamespace),
                        Spread(parent.props, childProps),
                        parent.parentSpanId, parent.traceId, Some(h))

WorkerLoggerLogger(h, childNamespace, childProps) ==
  /\ Len(loggers) + Len(workerLoggers) < MaxLoggers
  /\ workerLoggers' = Append(workerLoggers, WorkerLoggerMethod(h, childNamespace, childProps))
  /\ Quiet /\ op' = Call("worker.logger", <<h, childNamespace, childProps>>)
  /\ UNCHANGED <<configVars, sinkVars, hostVars, spanVars, loggers, workerSpanIdCounter,
                 workerTraceIdCounter, workerSpans, posted, now>>

\* log with the level threshold of the main side applied before postMessage
WorkerLogFiltered(h, level, message, data, fails) ==
  /\ Len(posted) < MaxPosted
  /\ posted' = IF shouldLog(level)
               THEN Append(posted, Post(LogMessage(WorkerLoggerAt(h), level, message, data), fails))
               ELSE posted
  /\ Quiet /\ op' = Call("worker.log", <<h, level, message, "returned">>)
  /\ UNCHANGED <<configVars, sinkVars, hostVars, spanVars, loggers, workerSpanIdCounter,
                 workerTraceIdCounter, workerLoggers, workerSpans, now>>

\* log(level, message, data) of a worker logger, postMessage throwing or not
WorkerLog(h, level, message, data, fails) ==
  /\ Len(posted) < MaxPosted
  /\ posted' = Append(posted, Post(LogMessage(WorkerLoggerAt(h), level, message, data), fails))
  /\ Quiet /\ op' = Call("worker.log", <<h, level, message, PostOutcome(fails)>>)
  /\ UNCHANGED <<configVars, sinkVars, hostVars, spanVars, loggers, workerSpanIdCounter,
                 workerTraceIdCounter, workerLoggers, workerSpans, now>>

\* what createSpan(spanNamespace, spanProps) closes over
WorkerSpanMethod(h, spanNamespace, spanProps) ==
  LET parent == WorkerLoggerAt(h)
  IN [name |-> ChildName(parent.name, spanNamespace),
      props |-> Spread(parent.props, spanProps),
      id |-> WorkerSpanId(workerSpanIdCounter + 1),
      traceId |-> IF IsNull(parent.traceId) THEN WorkerTraceId(workerTraceIdCounter + 1)
                  ELSE Val(parent.traceId),
      parentId |-> parent.parentSpanId,
      startTime |-> now,
      ended |-> FALSE,
      attrs |-> NoProps,
      origin |-> Some(h)]

\* logger.span(spanNamespace, spanProps) of a worker logger
WorkerSpan(h, spanNamespace, spanProps, fails) ==
  /\ Len(spans) + Len(workerSpans) < MaxTreeSpans
  /\ Len(posted) < MaxPosted
  /\ workerSpanIdCounter' = workerSpanIdCounter + 1
  /\ workerTraceIdCounter' = IF IsNull(WorkerLoggerAt(h).traceId)
                             THEN workerTraceIdCounter + 1 ELSE workerTraceIdCounter
  /\ workerSpans' = Append(workerSpans, WorkerSpanMethod(h, spanNamespace, spanProps))
  /\ posted' = Append(posted, Post(StartMessage(WorkerSpanMethod(h, spanNamespace, spanProps)),
                                    fails))
  /\ Quiet /\ op' = Call("worker.span", <<h, spanNamespace, spanProps, PostOutcome(fails)>>)
  /\ UNCHANGED <<configVars, sinkVars, hostVars, spanVars, loggers, workerLoggers, now>>

\* endSpan without its "ended" return
EndSpanUnguarded(i, fails) ==
  /\ Len(posted) < MaxPosted
  /\ workerSpans' = [workerSpans EXCEPT ![i].ended = TRUE]
  /\ posted' = Append(posted, Post(EndMessage(workerSpans[i]), fails))

\* endSpan
EndSpan(i, fails) ==
  IF workerSpans[i].ended THEN UNCHANGED <<workerSpans, posted>>
  ELSE /\ Len(posted) < MaxPosted
       /\ workerSpans' = [workerSpans EXCEPT ![i].ended = TRUE]
       /\ posted' = Append(posted, Post(EndMessage(workerSpans[i]), fails))

\* span.end() or span[Symbol.dispose]() of a worker span
WorkerSpanEnd(i, fails) ==
  /\ EndSpan(i, fails)
  /\ Quiet /\ op' = Call("worker.end", <<i, PostOutcome(fails)>>)
  /\ UNCHANGED <<configVars, sinkVars, hostVars, spanVars, loggers, workerSpanIdCounter,
                 workerTraceIdCounter, workerLoggers, now>>

\* the get trap of a worker span's spanData
WorkerProxyGet(sp, key) ==
  CASE key = "id" -> sp.id
    [] key = "traceId" -> sp.traceId
    [] key = "parentId" -> sp.parentId
    [] key = "startTime" -> sp.startTime
    [] key = "endTime" -> IF sp.ended THEN Some(now) ELSE NULL
    [] key = "duration" -> now - sp.startTime
    [] OTHER -> IF key \in DOMAIN sp.attrs THEN sp.attrs[key] ELSE Undefined

WorkerSpanDataGet(i, key) ==
  /\ Quiet /\ op' = Call("worker.spanData.get", <<i, key, WorkerProxyGet(workerSpans[i], key)>>)
  /\ UNCHANGED <<configVars, sinkVars, hostVars, spanVars, loggers, relayVars, now>>

\* span.spanData[key] = value on a worker span
WorkerSpanDataSet(i, key, value, strict) ==
  /\ workerSpans' = [workerSpans EXCEPT ![i] = ProxySet(@, key, value)]
  /\ Quiet
  /\ op' = Call("worker.spanData.set", <<i, key, AssignOutcome(ProxySetResult(key), strict)>>)
  /\ UNCHANGED <<configVars, sinkVars, hostVars, spanVars, loggers, workerSpanIdCounter,
                 workerTraceIdCounter, workerLoggers, posted, now>>

\* resetWorkerIds()
ResetWorkerIds ==
  /\ workerSpanIdCounter' = 0
  /\ workerTraceIdCounter' = 0
  /\ Quiet /\ op' = Call("resetWorkerIds", <<>>)
  /\ UNCHANGED <<configVars, sinkVars, hostVars, spanVars, loggers, workerLoggers, workerSpans,
                 posted, now>>

\* ------------------------------------------------------ console forwarding
\* the arguments of a console call: strings and named functions
Str(chars) == [type |-> "string", value |-> chars]
Fn(name) == [type |-> "function", name |-> name]

\* serializeArg, for a string and for a function
serializeArg(arg) ==
  IF arg.type = "function"
  THEN Str(<<"[", "F", "u", "n", "c", "t", "i", "o", "n", ":", " ">> \o arg.name \o <<"]">>)
  ELSE arg

\* the closure forwardConsole installs as console[level], and a method that
\* other code installed
Forwarder(level, namespace) == <<"forward", level, namespace>>
Custom(level) == <<"custom", level>>
IsForwarder(method) == method[1] = "forward"

ConsoleMessage(level, namespace, args) ==
  [type |-> "console", level |-> level, namespace |-> namespace,
   args |-> [k \in 1..Len(args) |-> serializeArg(args[k])], timestamp |-> now]

\* if (!originalConsole) originalConsole = { ...console }, without the test
SavedConsoleAlways == Some(consoleMethods)

\* if (!originalConsole) originalConsole = { ...console }
SavedConsole == IF IsNull(originalConsole) THEN Some(consoleMethods) ELSE originalConsole

\* forwardConsole(postMessage, namespace)
ForwardConsole(namespace) ==
  /\ originalConsole' = SavedConsole
  /\ consoleMethods' = [level \in ConsoleLevels |-> Forwarder(level, namespace)]
  /\ Quiet /\ op' = Call("forwardConsole", <<namespace>>)
  /\ UNCHANGED <<configVars, sinkVars, collectVars, handlers, loggers, relayVars, spanVars, now>>

\* restoreConsole()
RestoreConsole ==
  /\ IF IsNull(originalConsole)
     THEN UNCHANGED consoleVars
     ELSE /\ consoleMethods' = Val(originalConsole)
          /\ originalConsole' = NULL
  /\ Quiet /\ op' = Call("restoreConsole", <<>>)
  /\ UNCHANGED <<configVars, sinkVars, collectVars, handlers, loggers, relayVars, spanVars, now>>

\* console[level] = a function of other code
ConsolePatch(level) ==
  /\ consoleMethods' = [consoleMethods EXCEPT ![level] = Custom(level)]
  /\ Quiet /\ op' = Call("console.patch", <<level>>)
  /\ UNCHANGED <<configVars, sinkVars, collectVars, originalConsole, handlers, loggers,
                 relayVars, spanVars, now>>

\* a call of a method that is not a forwarder: what it writes
MethodWrites(method, args) == <<[sink |-> <<"console", method>>, rec |-> args]>>

\* the catch of the forwarder, had it called originalConsole.log at every level
FallbackToLog(level, args) ==
  IF IsNull(originalConsole) THEN <<>>
  ELSE MethodWrites(Val(originalConsole)["log"], args)

\* originalConsole?.[level](...args)
Fallback(level, args) ==
  IF IsNull(originalConsole) THEN <<>>
  ELSE MethodWrites(Val(originalConsole)[level], args)

\* console[level](...args), postMessage throwing or not
ConsoleCall(level, args, fails) ==
  /\ IF IsForwarder(consoleMethods[level])
     THEN /\ Len(posted) < MaxPosted
          /\ posted' = Append(posted, Post(ConsoleMessage(consoleMethods[level][2],
                                                          consoleMethods[level][3], args),
                                           fails))
          /\ written' = IF fails THEN Fallback(consoleMethods[level][2], args) ELSE <<>>
          /\ op' = Call("console.call", <<level, args, PostOutcome(fails)>>)
     ELSE /\ ~fails
          /\ posted' = posted
          /\ written' = MethodWrites(consoleMethods[level], args)
          /\ op' = Call("console.call", <<level, args, "returned">>)
  /\ formatted' = <<>>
  /\ UNCHANGED <<configVars, sinkVars, hostVars, loggers, workerSpanIdCounter,
                 workerTraceIdCounter, workerLoggers, workerSpans, spanVars, now>>

\* ------------------------------------------------- main thread handlers
NsWorker == <<"w", "o", "r", "k", "e", "r">>

\* a || b for an optional string: an empty string counts as absent
OrElse(o, default) == IF IsNull(o) \/ Val(o) = <<>> THEN default ELSE Val(o)

\* a handler with its options and the keys of its Map of loggers
Handler(kind, defaultNamespace) ==
  [kind |-> kind, defaultNamespace |-> defaultNamespace, loggers |-> {}]

\* createWorkerLogHandler(options)
CreateWorkerLogHandler(enableSpansOption) ==
  /\ Len(handlers) < MaxHandlers
  /\ handlers' = Append(handlers, Handler("log", NULL))
  /\ spansEnabled' = IF enableSpansOption THEN TRUE ELSE spansEnabled
  /\ Quiet /\ op' = Call("createWorkerLogHandler", <<enableSpansOption>>)
  /\ UNCHANGED <<currentLogLevel, traceFilter, debugIncludes, debugExcludes, sinkVars,
                 collectVars, consoleVars, loggers, relayVars, spanVars, now>>

\* createWorkerConsoleHandler(options), without options.logger
CreateWorkerConsoleHandler(defaultNamespace) ==
  /\ Len(handlers) < MaxHandlers
  /\ handlers' = Append(handlers, Handler("console", defaultNamespace))
  /\ Quiet /\ op' = Call("createWorkerConsoleHandler", <<defaultNamespace>>)
  /\ UNCHANGED <<configVars, sinkVars, collectVars, consoleVars, loggers, relayVars,
                 spanVars, now>>

\* the namespace the handler asks getLogger for
HandlerNamespace(handler, message) ==
  IF message.type = "console"
  THEN OrElse(message.namespace,
              IF handler.kind = "console" THEN OrElse(handler.defaultNamespace, NsWorker)
              ELSE NsWorker)
  ELSE message.namespace

\* the switch over message.level: which method of the logger is called
HandlerMethod(level) == IF level = "log" THEN "info" ELSE level

\* logger[method](...) on a logger of createLogger: a TypeError when the
\* proxy gives undefined
LoggerCall(level) == IF MethodDefined(HandlerMethod(level)) THEN "returned" ELSE "TypeError"

\* the branches for console and log messages
HandleLog(k, message) ==
  LET ns == HandlerNamespace(handlers[k], message)
      method == HandlerMethod(message.level)
  IN /\ handlers' = [handlers EXCEPT ![k].loggers = @ \cup {ns}]
     /\ formatted' = IF MethodDefined(method) THEN LogFormatted(ns, method) ELSE <<>>
     /\ written' = IF MethodDefined(method) THEN LogWrites(ns, method) ELSE <<>>
     /\ op' = Call("handle", <<k, message, LoggerCall(message.level)>>)
     /\ UNCHANGED spanVars

\* the span events the handler acts on, had it acted on both
ConsumedEventsBoth == {"start", "end"}

\* if (message.event === "end")
ConsumedEvents == {"end"}

\* the span made and ended for an end message, without the copy of spanData
RelayedSpanWithoutData(message) ==
  [name |-> message.namespace, props |-> message.props,
   id |-> SpanId(spanIdCounter + 1), traceId |-> TraceId(traceIdCounter + 1),
   parentId |-> NULL, startTime |-> now, endTime |-> Some(now), duration |-> Some(0),
   attrs |-> NoProps, origin |-> NULL]

\* logger.span(undefined, message.props), spanData copied, span.end()
RelayedSpan(message) ==
  [name |-> message.namespace, props |-> message.props,
   id |-> SpanId(spanIdCounter + 1), traceId |-> TraceId(traceIdCounter + 1),
   parentId |-> NULL, startTime |-> now, endTime |-> Some(now), duration |-> Some(0),
   attrs |-> message.spanData, origin |-> NULL]

\* what span.end() formats, had it skipped the checks of writeSpan
RelayedSpanFormattedUnfiltered(sp) == <<SpanRecord(sp.name, 0, sp)>>

\* what span.end() of the relayed span formats
RelayedSpanFormatted(sp) == SpanFormatted(sp.name, 0, sp)

\* the branch for span messages
HandleSpan(k, message) ==
  /\ IF message.event \in ConsumedEvents
     THEN /\ Len(spans) < MaxTreeSpans
          /\ handlers' = [handlers EXCEPT ![k].loggers = @ \cup {message.namespace}]
          /\ spanIdCounter' = spanIdCounter + 1
          /\ traceIdCounter' = traceIdCounter + 1
          /\ spans' = Append(spans, RelayedSpan(message))
          /\ formatted' = RelayedSpanFormatted(RelayedSpan(message))
          /\ written' = IF RelayedSpanFormatted(RelayedSpan(message)) = <<>> THEN <<>>
                        ELSE SpanWrites(message.namespace, 0, RelayedSpan(message))
          /\ spanRecords' = Append(spanRecords, Len(formatted'))
     ELSE Quiet /\ UNCHANGED <<handlers, spanVars>>
  /\ op' = Call("handle", <<k, message, "returned">>)

\* the messages that reached the main thread
Delivered == {posted[j].message : j \in {i \in 1..Len(posted) : ~posted[i].threw}}

\* handler k called with a message; a console handler is given console
\* messages only
Handle(k, message) ==
  /\ handlers[k].kind = "console" => message.type = "console"
  /\ IF message.type = "span" THEN HandleSpan(k, message) ELSE HandleLog(k, message)
  /\ Dispatched
  /\ UNCHANGED <<configVars, collectVars, consoleVars, loggers, relayVars, now>>

\* ----------------------------------------------------------- specifications
LoggerKinds == {"conditional", "plain"}

\* the main side: configuration and spans
Next ==
  \/ \E level \in LogLevels : SetLogLevel(level)
  \/ EnableSpans
  \/ DisableSpans
  \/ \E namespaces \in SpanFilterArgs : SetTraceFilter(namespaces)
  \/ \E namespaces \in SpanFilterArgs : SetDebugFilter(namespaces)
  \/ \E from \in 0..Len(spans), root \in SpanRoots, seg \in Segments :
       SpanCreate(from, root, Some(seg))
  \/ \E i \in 1..Len(spans) : SpanEnd(i)
  \/ \E i \in 1..Len(spans) : SpanDispose(i)
  \/ Tick

Spec == Init /\ [][Next]_vars

\* the filter engine: the threshold, the debug filter and the log calls
NextFilter ==
  \/ \E level \in LogLevels : SetLogLevel(level)
  \/ \E namespaces \in DebugArgs : SetDebugFilter(namespaces)
  \/ ReapplyDebugFilter
  \/ \E kind \in LoggerKinds, level \in OutputLogLevels, namespace \in Namespaces :
       LogCall(kind, level, namespace)

SpecFilter == Init /\ [][NextFilter]_vars

\* the span switch and the trace filter
NextTrace ==
  \/ EnableSpans
  \/ DisableSpans
  \/ \E namespaces \in TraceArgs : SetTraceFilter(namespaces)

SpecTrace == Init /\ [][NextTrace]_vars

\* the module loaded with LOG_LEVEL, TRACE and DEBUG unset
InitUnset ==
  /\ Init
  /\ currentLogLevel = "info"
  /\ ~spansEnabled
  /\ IsNull(debugIncludes) /\ IsNull(debugExcludes)

\* spans ended under a trace filter
SpanFilterRoots == {NsA, ChildName(NsA, Some(SegB)), NsDashA}
SpanFilterSegments == {SegB, SegC, SegX}

NextSpanFilter ==
  \/ \E namespaces \in TraceArgs : SetTraceFilter(namespaces)
  \/ DisableSpans
  \/ \E root \in SpanFilterRoots, seg \in SpanFilterSegments : SpanCreate(0, root, Some(seg))
  \/ \E i \in 1..Len(spans) : SpanEnd(i)

SpecSpanFilter == InitUnset /\ [][NextSpanFilter]_vars

\* log calls under every span configuration
FrameNamespaces == {NsA, NsDashA, ChildName(NsA, Some(SegB))}

NextFrame ==
  \/ \E level \in LogLevels : SetLogLevel(level)
  \/ \E namespaces \in SpanFilterArgs : SetDebugFilter(namespaces)
  \/ EnableSpans
  \/ DisableSpans
  \/ \E namespaces \in TraceArgs : SetTraceFilter(namespaces)
  \/ \E kind \in LoggerKinds, level \in OutputLogLevels, namespace \in FrameNamespaces :
       LogCall(kind, level, namespace)

SpecFrame == Init /\ [][NextFrame]_vars

\* the loggers and spans of both sides, made from one another
NextLinkage ==
  \/ CreateLogger(NsA, NoProps)
  \/ \E h \in Handles : LoggerLogger(h, Some(SegB), NoProps)
  \/ \E h \in Handles : LoggerSpan(h, Some(SegB), NoProps)
  \/ ResetIds
  \/ CreateWorkerLogger(NsA, NoProps)
  \/ \E h \in WorkerHandles : WorkerLoggerLogger(h, Some(SegB), NoProps)
  \/ \E h \in WorkerHandles : WorkerSpan(h, Some(SegB), NoProps, FALSE)
  \/ ResetWorkerIds

SpecLinkage == InitUnset /\ [][NextLinkage]_vars

\* spans of the main side read through spanData while time passes
SpanDataKeys == StructuralKeys \cup {"count"}
SpanDataReadKeys == {"endTime", "duration"}
AttrValues == {1, 2}

NextSpanData ==
  \/ \E from \in 0..Len(spans) : SpanCreate(from, NsA, Some(SegB))
  \/ \E i \in 1..Len(spans) : SpanEnd(i)
  \/ \E i \in 1..Len(spans) : SpanDispose(i)
  \/ \E i \in 1..Len(spans), key \in SpanDataReadKeys : SpanDataGet(i, key)
  \/ Tick

SpecSpanData == Init /\ [][NextSpanData]_vars

\* assignments through the spanData of the spans of both sides
NextAssign ==
  \/ SpanCreate(0, NsA, Some(SegB))
  \/ \E i \in 1..Len(spans), key \in SpanDataKeys, value \in AttrValues, strict \in BOOLEAN :
       SpanDataSet(i, key, value, strict)
  \/ CreateWorkerLogger(NsA, NoProps)
  \/ \E l \in 1..Len(workerLoggers) : WorkerSpan(LoggerHandle(l), Some(SegB), NoProps, FALSE)
  \/ \E i \in 1..Len(workerSpans), key \in SpanDataKeys, value \in AttrValues,
         strict \in BOOLEAN : WorkerSpanDataSet(i, key, value, strict)

SpecAssign == InitUnset /\ [][NextAssign]_vars

\* log calls on worker loggers under every configuration
WorkerMessages == {<<"x">>, <<"y">>}

NextRelayLog ==
  \/ \E level \in LogLevels : SetLogLevel(level)
  \/ \E namespaces \in SpanFilterArgs : SetDebugFilter(namespaces)
  \/ EnableSpans
  \/ DisableSpans
  \/ CreateWorkerLogger(NsA, NoProps)
  \/ \E h \in WorkerHandles : WorkerLoggerLogger(h, Some(SegB), NoProps)
  \/ \E h \in WorkerHandles, level \in OutputLogLevels, message \in WorkerMessages :
       Len(posted) < MaxSpans /\ WorkerLog(h, level, message, NULL, FALSE)

SpecRelayLog == InitUnset /\ [][NextRelayLog]_vars

\* the spans of worker loggers: created, given attributes, ended, over time
NextRelaySpan ==
  \/ workerLoggers = <<>> /\ CreateWorkerLogger(NsA, NoProps)
  \/ \E h \in WorkerHandles :
       Len(posted) < MaxPosted - 1 /\ WorkerSpan(h, Some(SegB), NoProps, FALSE)
  \/ \E i \in 1..Len(workerSpans), value \in AttrValues :
       WorkerSpanDataSet(i, "count", value, TRUE)
  \/ \E i \in 1..Len(workerSpans) :
       (workerSpans[i].ended \/ Len(posted) < MaxPosted - 1) /\ WorkerSpanEnd(i, FALSE)
  \/ Tick

SpecRelaySpan == InitUnset /\ [][NextRelaySpan]_vars

\* a worker logger whose postMessage may throw on any call
NextRelayFail ==
  \/ workerLoggers = <<>> /\ CreateWorkerLogger(NsA, NoProps)
  \/ \E h \in WorkerHandles, message \in WorkerMessages, fails \in BOOLEAN :
       Len(posted) < MaxPosted - 1 /\ WorkerLog(h, "info", message, NULL, fails)
  \/ \E h \in WorkerHandles, fails \in BOOLEAN :
       Len(posted) < MaxPosted - 1 /\ WorkerSpan(h, Some(SegB), NoProps, fails)
  \/ \E i \in 1..Len(workerSpans), fails \in BOOLEAN :
       (workerSpans[i].ended \/ Len(posted) < MaxPosted - 1) /\ WorkerSpanEnd(i, fails)
  \/ Tick

SpecRelayFail == InitUnset /\ [][NextRelayFail]_vars

\* the spanData of a worker span read while time passes
NextRelayRead ==
  \/ workerLoggers = <<>> /\ CreateWorkerLogger(NsA, NoProps)
  \/ \E h \in WorkerHandles : WorkerSpan(h, Some(SegB), NoProps, FALSE)
  \/ \E i \in 1..Len(workerSpans) : WorkerSpanEnd(i, FALSE)
  \/ \E i \in 1..Len(workerSpans), key \in SpanDataReadKeys : WorkerSpanDataGet(i, key)
  \/ Tick

SpecRelayRead == InitUnset /\ [][NextRelayRead]_vars

\* the members of a createLogger logger read under changing thresholds
LoggerProps == LoggerMethods \cup {"name", "props", "spanData", "silent"}

NextConditional ==
  \/ \E level \in LogLevels : SetLogLevel(level)
  \/ CreateLogger(NsA, NoProps)
  \/ \E l \in ConditionalLoggers, prop \in LoggerProps : LoggerGet(l, prop)

SpecConditional == InitUnset /\ [][NextConditional]_vars

\* spans created, annotated and ended while the collection is switched
NextCollect ==
  \/ StartCollecting
  \/ StopCollecting
  \/ GetCollectedSpans
  \/ ClearCollectedSpans
  \/ SpanCreate(0, NsA, Some(SegB))
  \/ \E i \in 1..Len(spans), value \in AttrValues : SpanDataSet(i, "count", value, TRUE)
  \/ \E i \in 1..Len(spans) : SpanEnd(i)
  \/ \E i \in 1..Len(spans) : SpanDispose(i)
  \/ Tick

SpecCollect == InitUnset /\ [][NextCollect]_vars

\* the console of a worker: forwarded, restored, patched and called
ConsoleNamespaces == {NULL, Some(NsA)}
ConsoleArgs == {<<Str(<<"x">>)>>, <<Str(<<"x">>), Fn(<<"f">>)>>}

NextConsole ==
  \/ \E namespace \in ConsoleNamespaces : ForwardConsole(namespace)
  \/ RestoreConsole
  \/ IsNull(originalConsole) /\ ConsolePatch("log")
  \/ \E level \in ConsoleLevels, args \in ConsoleArgs, fails \in BOOLEAN :
       /\ IsForwarder(consoleMethods[level]) => Len(posted) < MaxSpans
       /\ ConsoleCall(level, args, fails)

SpecConsole == InitUnset /\ [][NextConsole]_vars

\* log and console messages of workers handled under changing thresholds
NextHandle ==
  \/ \E level \in LogLevels : SetLogLevel(level)
  \/ \E namespaces \in SpanFilterArgs : SetDebugFilter(namespaces)
  \/ workerLoggers = <<>> /\ CreateWorkerLogger(NsA, NoProps)
  \/ \E h \in WorkerHandles, level \in OutputLogLevels :
       Len(posted) < MaxSpans /\ WorkerLog(h, level, <<"x">>, NULL, FALSE)
  \/ \E namespace \in ConsoleNamespaces : ForwardConsole(namespace)
  \/ \E level \in ConsoleLevels :
       /\ IsForwarder(consoleMethods[level])
       /\ Len(posted) < MaxSpans
       /\ ConsoleCall(level, <<Str(<<"x">>)>>, FALSE)
  \/ handlers = <<>> /\ CreateWorkerLogHandler(FALSE)
  \/ Len(handlers) = 1 /\ CreateWorkerConsoleHandler(NULL)
  \/ \E k \in 1..Len(handlers), message \in Delivered : Handle(k, message)

SpecHandle == InitUnset /\ [][NextHandle]_vars

\* loggers and spans derived from one another, with props
RootProps == {NoProps, [k |-> 1]}
DeriveArgs == {<<NULL, NoProps>>, <<Some(SegB), [k |-> 2]>>, <<Some(SegB), [m |-> 2]>>}

NextIdentity ==
  \/ \E props \in RootProps : CreateLogger(NsA, props)
  \/ \E h \in Handles, args \in DeriveArgs : LoggerLogger(h, args[1], args[2])
  \/ \E h \in Handles, args \in DeriveArgs :
       Len(spans) < MaxSpans /\ LoggerSpan(h, args[1], args[2])
  \/ \E h \in Handles, strict \in BOOLEAN : PropsAssign(h, "k", 2, strict)

SpecIdentity == InitUnset /\ [][NextIdentity]_vars

\* spans of workers relayed to a handler under changing span configuration
RelayedFilterArgs == {NULL, Some(<<PatNotAB>>)}

NextRelayed ==
  \/ EnableSpans
  \/ DisableSpans
  \/ \E namespaces \in RelayedFilterArgs : SetTraceFilter(namespaces)
  \/ \E namespaces \in RelayedFilterArgs : SetDebugFilter(namespaces)
  \/ workerLoggers = <<>> /\ CreateWorkerLogger(NsA, [k |-> 1])
  \/ \E h \in WorkerHandles :
       Len(posted) < MaxPosted - 1 /\ WorkerSpan(h, Some(SegB), NoProps, FALSE)
  \/ \E i \in 1..Len(workerSpans) :
       ~workerSpans[i].ended /\ WorkerSpanDataSet(i, "count", 2, TRUE)
  \/ \E i \in 1..Len(workerSpans) :
       (workerSpans[i].ended \/ Len(posted) < MaxPosted - 1) /\ WorkerSpanEnd(i, FALSE)
  \/ \E enableSpansOption \in BOOLEAN :
       handlers = <<>> /\ CreateWorkerLogHandler(enableSpansOption)
  \/ \E k \in 1..Len(handlers), message \in Delivered :
       Len(spans) < MaxSpans /\ Handle(k, message)

SpecRelayed == InitUnset /\ [][NextRelayed]_vars

\* the spans of several worker loggers relayed in any order
NextAuthority ==
  \/ EnableSpans
  \/ DisableSpans
  \/ \E namespaces \in RelayedFilterArgs : SetTraceFilter(namespaces)
  \/ \E namespaces \in RelayedFilterArgs : SetDebugFilter(namespaces)
  \/ \E name \in {NsA, NsDashA} :
       /\ \A l \in 1..Len(workerLoggers) : workerLoggers[l].name # name
       /\ CreateWorkerLogger(name, NoProps)
  \/ \E l \in 1..Len(workerLoggers) :
       /\ \A i \in 1..Len(workerSpans) : workerSpans[i].origin # Some(LoggerHandle(l))
       /\ WorkerSpan(LoggerHandle(l), Some(SegB), NoProps, FALSE)
  \/ \E i \in 1..Len(workerSpans) : WorkerSpanEnd(i, FALSE)
  \/ handlers = <<>> /\ CreateWorkerLogHandler(FALSE)
  \/ \E k \in 1..Len(handlers), message \in Delivered :
       Len(spans) < MaxSpans /\ Handle(k, message)

SpecAuthority == InitUnset /\ [][NextAuthority]_vars

\* a worker span and its child span, ended while time passes and relayed
NextRelayTree ==
  \/ EnableSpans
  \/ Tick
  \/ workerLoggers = <<>> /\ CreateWorkerLogger(NsA, NoProps)
  \/ \E h \in WorkerHandles :
       WorkerSpan(h, Some(IF h[1] = "span" THEN SegX ELSE SegB), NoProps, FALSE)
  \/ \E i \in 1..Len(workerSpans) : WorkerSpanEnd(i, FALSE)
  \/ handlers = <<>> /\ CreateWorkerLogHandler(TRUE)
  \/ \E k \in 1..Len(handlers), message \in Delivered : Handle(k, message)

SpecRelayTree == InitUnset /\ [][NextRelayTree]_vars

\* spans created under one configuration and ended under another: a:b is
\* created while its record would be dropped, -a:b while it would be written
NextSpanDecision ==
  \/ EnableSpans
  \/ DisableSpans
  \/ \E namespaces \in RelayedFilterArgs : SetTraceFilter(namespaces)
  \/ \E namespaces \in RelayedFilterArgs : SetDebugFilter(namespaces)
  \/ /\ ~(/\ shouldTraceNamespace(ChildName(NsA, Some(SegB)))
          /\ shouldDebugNamespace(ChildName(NsA, Some(SegB))))
     /\ SpanCreate(0, NsA, Some(SegB))
  \/ /\ shouldTraceNamespace(ChildName(NsDashA, Some(SegB)))
     /\ shouldDebugNamespace(ChildName(NsDashA, Some(SegB)))
     /\ SpanCreate(0, NsDashA, Some(SegB))
  \/ \E i \in 1..Len(spans) : SpanEnd(i)
  \/ Tick

SpecSpanDecision == InitUnset /\ [][NextSpanDecision]_vars

\* spans with props, given attributes before and after their end
AttrKeys == {"count", "k"}
SpanProps == {[m |-> 1], [span_id |-> <<"x">>]}

NextAttributes ==
  \/ EnableSpans
  \/ loggers = <<>> /\ CreateLogger(NsA, [k |-> 1])
  \/ \E h \in Handles, props \in SpanProps :
       Len(spans) < MaxSpans /\ LoggerSpan(h, Some(SegB), props)
  \/ \E i \in 1..Len(spans), key \in AttrKeys, value \in AttrValues :
       SpanDataSet(i, key, value, TRUE)
  \/ \E i \in 1..Len(spans) : SpanEnd(i)

SpecAttributes == InitUnset /\ [][NextAttributes]_vars

\* the methods of a createLogger logger and of its child read under changing
\* thresholds
NextChildren ==
  \/ \E level \in LogLevels : SetLogLevel(level)
  \/ loggers = <<>> /\ CreateLogger(NsA, NoProps)
  \/ \E h \in Handles : LoggerLogger(h, Some(SegB), NoProps)
  \/ \E l \in 1..Len(loggers), prop \in LoggerProps : LoggerGet(l, prop)

SpecChildren == InitUnset /\ [][NextChildren]_vars

\* log and span records written while writers come and go and the console
\* settings change
NextWriters ==
  \/ EnableSpans
  \/ \E writer \in PassiveWriters : IndexOf(writers, writer) = 0 /\ AddWriter(writer)
  \/ \E writer \in PassiveWriters : Unsubscribe(writer)
  \/ \E value \in BOOLEAN : SetSuppressConsole(value)
  \/ \E mode \in OutputModes : SetOutputMode(mode)
  \/ \E level \in {"debug", "info"} : LogCall("plain", level, NsA)
  \/ SpanCreate(0, NsA, Some(SegB))
  \/ \E i \in 1..Len(spans) : SpanEnd(i)

SpecWriters == InitUnset /\ [][NextWriters]_vars

\* records written to writers that unsubscribe while they are called
NextReentrant ==
  \/ EnableSpans
  \/ \E writer \in DOMAIN WriterCancels : IndexOf(writers, writer) = 0 /\ AddWriter(writer)
  \/ \E writer \in DOMAIN WriterCancels : Unsubscribe(writer)
  \/ \E level \in {"debug", "info"} : LogCall("plain", level, NsA)
  \/ SpanCreate(0, NsA, Some(SegB))
  \/ \E i \in 1..Len(spans) : SpanEnd(i)

SpecReentrant == InitUnset /\ [][NextReentrant]_vars

\* ------------------------------------------------- the claims' vocabulary
\* trace < debug < info < warn < error < silent
LevelOrder == <<"trace", "debug", "info", "warn", "error", "silent">>
Rank(level) == CHOOSE k \in 1..Len(LevelOrder) : LevelOrder[k] = level

\* namespace starts with p + ":"
ColonPrefix(p, namespace) ==
  /\ Len(namespace) > Len(p)
  /\ \A k \in 1..Len(p) : namespace[k] = p[k]
  /\ namespace[Len(p) + 1] = ":"

ClaimMatches(namespace, set) ==
  \/ <<"*">> \in set
  \/ \E p \in set : namespace = p \/ ColonPrefix(p, namespace)

ClaimAllowed(namespace, includes, excludes) ==
  CASE IsNull(includes) /\ IsNull(excludes) -> TRUE
    [] ~IsNull(excludes) /\ ClaimMatches(namespace, Val(excludes)) -> FALSE
    [] OTHER -> IsNull(includes) \/ ClaimMatches(namespace, Val(includes))

\* span emission enabled and the namespace allowed by both filters
SpanPermitted(namespace) ==
  /\ spansEnabled
  /\ IsNull(traceFilter) \/ ClaimMatches(namespace, Val(traceFilter))
  /\ ClaimAllowed(namespace, debugIncludes, debugExcludes)

LastIsEndOf(i) == op \in {Call("end", <<i>>), Call("dispose", <<i>>)}
\* the step is a call of end() or of Symbol.dispose on span i
EndCall(i) == LastIsEndOf(i)'
NsA_B == ChildName(NsA, Some(SegB))
NsA_C == ChildName(NsA, Some(SegC))
NsA_B_X == ChildName(NsA_B, Some(SegX))

\* C1: a permitted span produces exactly one span record however often end()
\* / dispose is called: the first call formats one record, every later call
\* formats and writes nothing and changes no state (endTime keeps its value).
C1_EndEmitsOnce ==
  [][\A i \in 1..Len(spans) :
       /\ spanRecords'[i] <= 1
       /\ EndCall(i) =>
            IF IsNull(spans[i].endTime)
            THEN SpanPermitted(spans[i].name) =>
                   /\ Len(formatted') = 1
                   /\ formatted'[1].level = "span"
                   /\ formatted'[1].name = spans[i].name
                   /\ spanRecords'[i] = 1
            ELSE /\ formatted' = <<>>
                 /\ written' = <<>>
                 /\ spans' = spans
                 /\ spanRecords' = spanRecords
                 /\ UNCHANGED <<configVars, sinkVars, hostVars, spanIdCounter, traceIdCounter, now>>]_vars

\* a span that emitted its record, ended again later with nothing emitted
C1_Witness ==
  \E i \in 1..Len(spans) :
    /\ LastIsEndOf(i)
    /\ spanRecords[i] = 1
    /\ formatted = <<>>
    /\ Val(spans[i].endTime) < now

C4_SilentWritesNothing == currentLogLevel = "silent" => written = <<>>

LastIsLog == op.name = "log"
LogLevelOf(call) == call.args[1]
LogNameOf(call) == call.args[2]

\* C2: a log call at level L on logger ns formats a log record iff L is at or
\* above the threshold in the order trace<debug<info<warn<error<silent and ns
\* is allowed by the debug filter; otherwise nothing is formatted or written.
\* Under the threshold error only error calls emit.
C2_LogEmissionDecision ==
  LastIsLog =>
    LET level == LogLevelOf(op)
        ns == LogNameOf(op)
        passes == /\ Rank(level) >= Rank(currentLogLevel)
                  /\ ClaimAllowed(ns, debugIncludes, debugExcludes)
    IN /\ passes => formatted = <<[level |-> level, name |-> ns, data |-> <<>>]>>
       /\ ~passes => formatted = <<>> /\ written = <<>>
       /\ currentLogLevel = "error" => (formatted # <<>> <=> level = "error" /\ passes)

\* an error call emitted under the threshold error with a debug filter set
C2_Witness ==
  /\ LastIsLog
  /\ currentLogLevel = "error"
  /\ ~IsNull(debugIncludes)
  /\ formatted = <<LogRecord("error", NsA)>>

ConfiguredSets == {Val(f) : f \in {debugIncludes, debugExcludes, traceFilter} \ {NULL}}

\* C5: matchesSet(namespace, set) holds iff set contains "*" or some pattern p
\* of set equals namespace or namespace starts with p + ":"; "ab" does not
\* match the pattern "a".
C5_MatchesSet ==
  /\ \A set \in ConfiguredSets, ns \in Namespaces :
       matchesNamespaceSet(ns, set) <=> ClaimMatches(ns, set)
  /\ \A set \in ConfiguredSets :
       (PatA \in set /\ set \subseteq {PatA, NsA_B})
          => ~matchesNamespaceSet(NsAB, set) /\ matchesNamespaceSet(NsA_B, set)

\* with the includes {a}, a call on "ab" that passes the threshold is dropped
C5_Witness ==
  /\ debugIncludes = Some({PatA})
  /\ IsNull(debugExcludes)
  /\ op = Call("log", <<"error", NsAB>>)
  /\ currentLogLevel = "debug"
  /\ formatted = <<>>

\* C6: allowed(ns) under the debug filter is true when nothing is configured,
\* false when ns matches the excludes (also when it matches the includes),
\* otherwise true exactly when ns matches the includes if there are any, and
\* true when only excludes are configured. With includes {a} and excludes
\* {a:b}: a:b and a:b:x are denied, a:c is allowed.
C6_DebugAllowed ==
  /\ \A ns \in Namespaces :
       shouldDebugNamespace(ns) <=> ClaimAllowed(ns, debugIncludes, debugExcludes)
  /\ (debugIncludes = Some({PatA}) /\ debugExcludes = Some({NsA_B}))
       => /\ ~shouldDebugNamespace(NsA_B)
          /\ ~shouldDebugNamespace(NsA_B_X)
          /\ shouldDebugNamespace(NsA_C)

\* with includes {a} and excludes {a:b}, a call on a:b:x is dropped
C6_Witness ==
  /\ debugIncludes = Some({PatA})
  /\ debugExcludes = Some({NsA_B})
  /\ op = Call("log", <<"error", NsA_B_X>>)
  /\ currentLogLevel = "trace"
  /\ formatted = <<>>

ChildSegments == {SegB, SegC, SegX}
AllowedAsInclude(parent) ==
  /\ ~IsNull(debugIncludes)
  /\ parent \in Val(debugIncludes)
  /\ shouldDebugNamespace(parent)

\* C7 as stated: a parent allowed because it equals an include pattern has
\* every child parent:x allowed.
C7_ChildInheritance ==
  \A parent \in Namespaces, x \in ChildSegments :
    AllowedAsInclude(parent) => shouldDebugNamespace(ChildName(parent, Some(x)))

\* C7 amended: a parent allowed because it equals an include pattern has every
\* child parent:x allowed that matches no exclude pattern.
C7_ChildInheritanceUnlessExcluded ==
  \A parent \in Namespaces, x \in ChildSegments :
    LET child == ChildName(parent, Some(x))
    IN (/\ AllowedAsInclude(parent)
        /\ IsNull(debugExcludes) \/ ~ClaimMatches(child, Val(debugExcludes)))
         => shouldDebugNamespace(child)

\* with includes {a} and excludes {a:b}, a call on the child a:c of a is emitted
C7_Witness ==
  /\ debugIncludes = Some({PatA})
  /\ debugExcludes = Some({NsA_B})
  /\ AllowedAsInclude(NsA)
  /\ LastIsLog
  /\ Len(formatted) = 1 /\ formatted[1].name = NsA_C

\* C8: setDebugFilter(getDebugFilter()) leaves allowed(ns) under the debug
\* filter unchanged for every namespace.
C8_RoundTrip ==
  [][ReapplyDebugFilter =>
       \A ns \in Namespaces :
         DebugNamespaceAllowed(ns, debugIncludes', debugExcludes')
           <=> DebugNamespaceAllowed(ns, debugIncludes, debugExcludes)]_vars

\* the round trip was made on an exclude-only filter holding "" and "-a"
C8_Witness ==
  /\ op.name = "setDebugFilter(getDebugFilter())"
  /\ IsNull(debugIncludes)
  /\ debugExcludes = Some({<<>>, NsDashA})

InstallsFilter(namespaces) == ~IsNull(namespaces) /\ Val(namespaces) # <<>>
LastIsSetDebugFilter == op.name = "setDebugFilter"
ThresholdBefore(call) == call.args[1]
DebugFilterIsSet == ~IsNull(debugIncludes) \/ ~IsNull(debugExcludes)

\* C9: a setDebugFilter call that sets a filter turns a threshold of info,
\* warn, error or silent into debug and leaves trace and debug as they are;
\* no call of setDebugFilter makes the threshold coarser.
C9_FilterLowersThreshold ==
  LastIsSetDebugFilter =>
    LET before == ThresholdBefore(op)
    IN /\ Rank(currentLogLevel) <= Rank(before)
       /\ DebugFilterIsSet =>
            currentLogLevel = IF before \in {"info", "warn", "error", "silent"}
                              THEN "debug" ELSE before

\* setDebugFilter installed a filter while the threshold was warn
C9_Witness ==
  /\ op = Call("setDebugFilter", <<"warn">>)
  /\ DebugFilterIsSet
  /\ currentLogLevel = "debug"

\* C10: after setTraceFilter(L) with a non-empty list L spans are enabled and
\* getTraceFilter() returns the patterns of L, each once.
C10_TraceFilterEnablesSpans ==
  [][\A namespaces \in TraceArgs :
       (InstallsFilter(namespaces) /\ SetTraceFilter(namespaces)) =>
          /\ spansEnabled'
          /\ ~IsNull(getTraceFilter')
          /\ Range(Val(getTraceFilter')) = Range(Val(namespaces))
          /\ Len(Val(getTraceFilter')) = Cardinality(Range(Val(namespaces)))]_vars

\* setTraceFilter installed two patterns while spans were disabled
C10_Witness ==
  /\ op = Call("setTraceFilter", <<FALSE>>)
  /\ spansEnabled
  /\ getTraceFilter # NULL
  /\ Range(Val(getTraceFilter)) = {PatA, PatNotAB}

\* a pattern marked as an exclude, and the pattern under the mark
Marked(p) == Len(p) > 0 /\ p[1] = "-"
Unmarked(p) == [k \in 1..(Len(p) - 1) |-> p[k + 1]]
SomeOrNull(set) == IF set = {} THEN NULL ELSE Some(set)
\* the trace filter's patterns, read the way the debug filter's are
TraceIncludesRead ==
  IF IsNull(traceFilter) THEN NULL ELSE SomeOrNull({p \in Val(traceFilter) : ~Marked(p)})
TraceExcludesRead ==
  IF IsNull(traceFilter) THEN NULL
  ELSE SomeOrNull({Unmarked(p) : p \in {q \in Val(traceFilter) : Marked(q)}})
FirstEnd(i) == EndCall(i) /\ IsNull(spans[i].endTime)
NsDashA_B == ChildName(NsDashA, Some(SegB))

\* C11 as stated: the trace filter reads a pattern with a leading "-" as an
\* exclude, as the debug filter does: the first end of a span formats a record
\* iff spans are enabled and the name is allowed by those includes and
\* excludes (and by the debug filter); under the trace filter ["a", "-a:b"]
\* the spans a:b and a:b:x are not emitted and the span a:c is.
C11_TraceFilterExcludes ==
  [][\A i \in 1..Len(spans) :
       FirstEnd(i) =>
         /\ formatted' # <<>> <=>
              /\ spansEnabled
              /\ ClaimAllowed(spans[i].name, TraceIncludesRead, TraceExcludesRead)
              /\ ClaimAllowed(spans[i].name, debugIncludes, debugExcludes)
         /\ (traceFilter = Some({PatA, PatNotAB}) /\ spans[i].name \in {NsA_B, NsA_B_X})
              => formatted' = <<>>]_vars

\* C11 amended: every pattern of the trace filter is an include pattern, its
\* leading "-" a part of the pattern: the first end of a span formats a record
\* iff spans are enabled and the name matches the set of patterns as they were
\* given (and the debug filter allows it); with spans enabled under the trace
\* filter ["a", "-a:b"] the spans a:b, a:b:x and a:c are all emitted, and
\* under ["-a:b"] only a span named -a:b or below it is.
C11_TraceFilterIncludesOnly ==
  [][\A i \in 1..Len(spans) :
       FirstEnd(i) =>
         /\ formatted' # <<>> <=>
              /\ spansEnabled
              /\ IsNull(traceFilter) \/ ClaimMatches(spans[i].name, Val(traceFilter))
              /\ ClaimAllowed(spans[i].name, debugIncludes, debugExcludes)
         /\ (spansEnabled /\ traceFilter = Some({PatA, PatNotAB})
               /\ spans[i].name \in {NsA_B, NsA_B_X, NsA_C}
               /\ IsNull(debugIncludes) /\ IsNull(debugExcludes))
              => Len(formatted') = 1 /\ formatted'[1].name = spans[i].name
         /\ (traceFilter = Some({PatNotAB}) /\ formatted' # <<>>)
              => spans[i].name = NsDashA_B \/ ColonPrefix(NsDashA_B, spans[i].name)]_vars

\* the span a:b ended and was emitted under the trace filter ["a", "-a:b"]
C11_Witness ==
  \E i \in 1..Len(spans) :
    /\ LastIsEndOf(i)
    /\ traceFilter = Some({PatA, PatNotAB})
    /\ spans[i].name = NsA_B
    /\ Len(formatted) = 1 /\ formatted[1].name = NsA_B

SpanConfigCall == op.name \in {"enableSpans", "disableSpans", "setTraceFilter"}
\* the records a log call made now would format
LogEmission(kind, level, namespace) ==
  IF kind = "conditional" /\ ~MethodDefined(level) THEN <<>>
  ELSE LogFormatted(namespace, level)

\* C12: enableSpans, disableSpans and setTraceFilter leave what every log call
\* emits as it was: log emission does not depend on the span switch or on the
\* trace filter.
C12_LogIndependentOfSpanConfig ==
  [][SpanConfigCall' =>
       \A kind \in LoggerKinds, level \in OutputLogLevels, namespace \in FrameNamespaces :
         LogEmission(kind, level, namespace)' = LogEmission(kind, level, namespace)]_vars

\* a log call on -a emitted with spans disabled and the trace filter ["a"]
C12_Witness ==
  /\ LastIsLog
  /\ ~spansEnabled
  /\ traceFilter = Some({PatA})
  /\ formatted = <<LogRecord("info", NsDashA)>>

\* the span a logger is inside: the span whose logger it is, or the one the
\* logger it was made from is inside; 0 when there is none
RECURSIVE Enclosing(_, _)
Enclosing(heap, h) ==
  IF h[1] = "span" THEN h[2]
  ELSE IF IsNull(heap[h[2]].origin) THEN 0
  ELSE Enclosing(heap, Val(heap[h[2]].origin))

\* the span the span sp of all was created inside, and its outermost ancestor
ParentOf(heap, sp) == IF IsNull(sp.origin) THEN 0 ELSE Enclosing(heap, Val(sp.origin))
RECURSIVE RootOf(_, _, _)
RootOf(heap, all, i) ==
  IF ParentOf(heap, all[i]) = 0 THEN i ELSE RootOf(heap, all, ParentOf(heap, all[i]))

Linked(heap, all) ==
  \A i \in 1..Len(all) :
    LET e == ParentOf(heap, all[i])
    IN /\ IF e = 0 THEN IsNull(all[i].parentId)
          ELSE all[i].parentId = Some(all[e].id) /\ all[i].traceId = all[e].traceId
       /\ all[i].traceId = all[RootOf(heap, all, i)].traceId

\* the step creates a span outside every span, with a trace id newly generated
NewRoot(heap, before, after) ==
  /\ Len(after) = Len(before) + 1
  /\ ParentOf(heap, after[Len(after)]) = 0

Roots(all) == {i \in 1..Len(all) : IsNull(all[i].parentId)}
Unique(all) ==
  \A i, j \in 1..Len(all) :
    i # j => /\ all[i].id # all[j].id
             /\ (i \in Roots(all) /\ j \in Roots(all)) => all[i].traceId # all[j].traceId

\* the counters count the spans and the root spans created: resetIds() (or
\* resetWorkerIds()) has not been called since the first span was created
CountersIntact(spanCounter, traceCounter, all) ==
  spanCounter = Len(all) /\ traceCounter = Cardinality(Roots(all))

DurationRead(i) == ProxyGet(spans[i], "duration")
EndTimeRead(i) == ProxyGet(spans[i], "endTime")

\* C15: while a span of createLogger is Active its endTime reads null and its
\* duration reads are never negative and never decrease from one step to the
\* next; once it is Ended every read of duration gives endTime - startTime,
\* the same at the next step, and endTime does not change.
C15_DurationLiveThenFrozen ==
  [][\A i \in 1..Len(spans) :
       IF IsNull(spans[i].endTime)
       THEN /\ EndTimeRead(i) = NULL
            /\ DurationRead(i) >= 0
            /\ DurationRead(i)' >= DurationRead(i)
       ELSE /\ DurationRead(i) = Val(spans[i].endTime) - spans[i].startTime
            /\ DurationRead(i)' = DurationRead(i)
            /\ EndTimeRead(i)' = EndTimeRead(i)
            /\ spans'[i].endTime = spans[i].endTime]_vars

\* duration read on a span ended before the clock moved on: still its value at
\* the end
C15_Witness ==
  \E i \in 1..Len(spans) :
    /\ ~IsNull(spans[i].endTime)
    /\ now > Val(spans[i].endTime)
    /\ op = Call("spanData.get", <<i, "duration", Val(spans[i].endTime) - spans[i].startTime>>)

LastIsSpanDataSet == op.name \in {"spanData.set", "worker.spanData.set"}
AssignedKey(call) == call.args[2]
AssignmentOutcome(call) == call.args[3]

\* C16: an assignment to id, traceId, parentId, startTime, endTime or duration
\* through span.spanData raises no error, on either side.
C16_StructuralAssignSilent ==
  (LastIsSpanDataSet /\ AssignedKey(op) \in StructuralKeys)
    => AssignmentOutcome(op) = "returned"

\* the name and props of the logger behind a handle
Identity(h) ==
  IF h[1] = "span" THEN [name |-> spans[h[2]].name, props |-> spans[h[2]].props]
  ELSE [name |-> loggers[h[2]].name, props |-> loggers[h[2]].props]

\* child is parent extended by the segment seg (or by none) and the props extra
Derived(child, parent, seg, extra) ==
  /\ child.name = IF IsNull(seg) THEN parent.name ELSE parent.name \o <<":">> \o Val(seg)
  /\ DOMAIN child.props = DOMAIN parent.props \cup DOMAIN extra
  /\ \A k \in DOMAIN extra : child.props[k] = extra[k]
  /\ \A k \in DOMAIN parent.props \ DOMAIN extra : child.props[k] = parent.props[k]

IdentitiesKept ==
  /\ \A l \in 1..Len(loggers) :
       loggers'[l].name = loggers[l].name /\ loggers'[l].props = loggers[l].props
  /\ \A i \in 1..Len(spans) :
       spans'[i].name = spans[i].name /\ spans'[i].props = spans[i].props

\* C17: the logger made by .logger(seg, extra) and the span logger made by
\* .span(seg, extra) have the parent's name extended by ":" and seg (the
\* parent's name when seg is omitted) and the parent's props overridden by
\* extra; no step changes the name or props of an existing logger, an
\* assignment to a key of logger.props included.
C17_IdentityDerivation ==
  [][/\ IdentitiesKept
     /\ op'.name = "logger" =>
          /\ Len(loggers') = Len(loggers) + 1
          /\ Derived(loggers'[Len(loggers')], Identity(op'.args[1]), op'.args[2], op'.args[3])
     /\ op'.name = "logger.span" =>
          /\ Len(spans') = Len(spans) + 1
          /\ Derived(spans'[Len(spans')], Identity(op'.args[1]), op'.args[2], op'.args[3])
     /\ op'.name = "props.set" =>
          /\ Len(loggers') = Len(loggers)
          /\ Len(spans') = Len(spans)]_vars

\* a child a:b made with { k: 2 } from a logger a whose props are { k: 1 }
C17_Witness ==
  /\ op.name = "logger"
  /\ op.args[2] = Some(SegB)
  /\ op.args[3] = [k |-> 2]
  /\ Identity(op.args[1]) = [name |-> NsA, props |-> [k |-> 1]]
  /\ loggers[Len(loggers)].name = NsA_B
  /\ loggers[Len(loggers)].props = [k |-> 2]

LastPosted == posted[Len(posted)]

\* C18: every log call on a worker logger, at any of the five levels and
\* under any threshold, filters and span switch, makes exactly one call of
\* postMessage, with a message of type "log" that carries the level, the
\* logger's namespace and the message of the call; it formats no record and
\* writes nothing to the console, stderr or a writer.
C18_ProducerPostsAndNeverEmits ==
  [][op'.name = "worker.log" =>
       /\ Len(posted') = Len(posted) + 1
       /\ SubSeq(posted', 1, Len(posted)) = posted
       /\ posted'[Len(posted')].message.type = "log"
       /\ posted'[Len(posted')].message.level = op'.args[2]
       /\ posted'[Len(posted')].message.namespace = WorkerLoggerAt(op'.args[1]).name
       /\ posted'[Len(posted')].message.message = op'.args[3]
       /\ formatted' = <<>>
       /\ written' = <<>>
       /\ writers' = writers]_vars

\* a trace call on the worker logger a:b while the threshold is "silent" and
\* spans are off
C18_Witness ==
  /\ op.name = "worker.log"
  /\ op.args[2] = "trace"
  /\ currentLogLevel = "silent"
  /\ ~spansEnabled
  /\ LastPosted.message.type = "log"
  /\ LastPosted.message.level = "trace"
  /\ LastPosted.message.namespace = NsA_B

\* the positions in posted of the start and of the end messages of worker span i
StartsOf(i) ==
  {j \in 1..Len(posted) : /\ posted[j].message.type = "span"
                          /\ posted[j].message.event = "start"
                          /\ posted[j].message.spanId = workerSpans[i].id}
EndsOf(i) ==
  {j \in 1..Len(posted) : /\ posted[j].message.type = "span"
                          /\ posted[j].message.event = "end"
                          /\ posted[j].message.spanId = workerSpans[i].id}

SameSpan(m, n) ==
  /\ m.namespace = n.namespace
  /\ m.spanId = n.spanId
  /\ m.traceId = n.traceId
  /\ m.parentId = n.parentId

SpanProtocol(i) ==
  /\ Cardinality(StartsOf(i)) = 1
  /\ Cardinality(EndsOf(i)) = IF workerSpans[i].ended THEN 1 ELSE 0
  /\ \A s \in StartsOf(i), e \in EndsOf(i) :
       /\ s < e
       /\ SameSpan(posted[s].message, posted[e].message)
       /\ posted[e].message.duration =
            Some(Val(posted[e].message.endTime) - posted[e].message.startTime)
       /\ Val(posted[e].message.duration) >= 0

\* C19: every span of a worker logger has exactly one start message, passed
\* to postMessage when it is created, and exactly one end message once end()
\* or dispose has been called, however often; the start comes before the end,
\* the two carry the same namespace, spanId, traceId and parentId; the end
\* message carries the custom attributes as they were when end() was first
\* called, and duration = endTime - startTime >= 0.
C19_ProducerSpanProtocol ==
  /\ [](\A i \in 1..Len(workerSpans) : SpanProtocol(i))
  /\ [][/\ op'.name = "worker.span" =>
            /\ Len(posted') = Len(posted) + 1
            /\ posted'[Len(posted')].message.event = "start"
            /\ posted'[Len(posted')].message.spanId = workerSpans'[Len(workerSpans')].id
        /\ (op'.name = "worker.end" /\ ~workerSpans[op'.args[1]].ended) =>
            /\ Len(posted') = Len(posted) + 1
            /\ posted'[Len(posted')].message.event = "end"
            /\ posted'[Len(posted')].message.spanId = workerSpans[op'.args[1]].id
            /\ posted'[Len(posted')].message.spanData = workerSpans[op'.args[1]].attrs
        /\ (op'.name = "worker.end" /\ workerSpans[op'.args[1]].ended) => posted' = posted
        /\ op'.name \notin {"worker.span", "worker.end"} => posted' = posted
        /\ SubSeq(posted', 1, Len(posted)) = posted]_vars

\* a span ended after a tick with count = 1, then given count = 2 and ended
\* once more: its one end message has duration 1 and count = 1
C19_Witness ==
  /\ op.name = "worker.end"
  /\ workerSpans[op.args[1]].ended
  /\ workerSpans[op.args[1]].attrs = [count |-> 2]
  /\ \E e \in EndsOf(op.args[1]) :
       /\ posted[e].message.spanData = [count |-> 1]
       /\ posted[e].message.duration = Some(1)
       /\ ~posted[e].threw
  /\ \E s \in StartsOf(op.args[1]) : ~posted[s].threw

\* how the last call ended, for the calls of a worker logger
WorkerCalls == {"worker.log", "worker.span", "worker.end"}
Outcome(call) == call.args[Len(call.args)]

\* C20: a log call, a span creation and a span end of a worker logger return
\* normally also when their postMessage throws; a span is ended after its
\* first end() even if the end message could not be sent, and an end() on an
\* ended span calls postMessage no more.
C20_TransmissionFailuresSwallowed ==
  [][/\ op'.name \in WorkerCalls => Outcome(op') = "returned"
     /\ op'.name = "worker.end" =>
          /\ workerSpans'[op'.args[1]].ended
          /\ workerSpans[op'.args[1]].ended => posted' = posted
          /\ ~workerSpans[op'.args[1]].ended => Len(posted') = Len(posted) + 1
     /\ op'.name \in {"worker.log", "worker.span"} => Len(posted') = Len(posted) + 1]_vars

\* an end() that returned on a span whose end message, sent before the tick,
\* threw, as did its start message and a log call
C20_Witness ==
  /\ op.name = "worker.end"
  /\ Outcome(op) = "returned"
  /\ workerSpans[op.args[1]].ended
  /\ now = 1
  /\ \E e \in EndsOf(op.args[1]) :
       posted[e].threw /\ posted[e].message.endTime = Some(0)
  /\ \E s \in StartsOf(op.args[1]) : posted[s].threw
  /\ \E j \in 1..Len(posted) : posted[j].message.type = "log" /\ posted[j].threw

\* C30: a read of spanData.endTime or spanData.duration of a worker span that
\* has ended returns the endTime, respectively the duration, that the span's
\* end message carries (and so the same value at every read).
C30_ProducerReadsFrozen ==
  (op.name = "worker.spanData.get" /\ workerSpans[op.args[1]].ended) =>
    \A e \in EndsOf(op.args[1]) :
      /\ op.args[2] = "endTime" => op.args[3] = posted[e].message.endTime
      /\ op.args[2] = "duration" => Some(op.args[3]) = posted[e].message.duration

\* C26: on a logger createLogger returned, reading the method of level L
\* gives undefined exactly when priority(L) < priority(threshold), with the
\* threshold of the moment of the read, and the function otherwise; name,
\* props, spanData, logger, span and end are never read as undefined. It holds
\* of the read just made and of a read of any such logger in any state.
C26_ConditionalMethods ==
  /\ \A l \in ConditionalLoggers :
       /\ \A level \in OutputLogLevels :
            /\ ConditionalGet(loggers[l], level) \in {Undefined, Function}
            /\ ConditionalGet(loggers[l], level) = Undefined
                 <=> LOG_LEVEL_PRIORITY[level] < LOG_LEVEL_PRIORITY[currentLogLevel]
       /\ \A prop \in {"name", "props", "spanData", "logger", "span", "end"} :
            ConditionalGet(loggers[l], prop) # Undefined
  /\ op.name = "logger.get" =>
       /\ op.args[2] \in OutputLogLevels =>
            /\ op.args[3] \in {Undefined, Function}
            /\ op.args[3] = Undefined
                 <=> LOG_LEVEL_PRIORITY[op.args[2]] < LOG_LEVEL_PRIORITY[currentLogLevel]
       /\ op.args[2] \in {"name", "props", "spanData", "logger", "span", "end"} =>
            op.args[3] # Undefined

\* log.debug read as a function after the threshold, "info" at first, was
\* set to "debug"
C26_Witness ==
  /\ op.name = "logger.get"
  /\ op.args[2] = "debug"
  /\ op.args[3] = Function
  /\ currentLogLevel = "debug"

\* the spans that end in a step
EndingSpans == {i \in 1..Len(spans) : IsNull(spans[i].endTime) /\ ~IsNull(spans'[i].endTime)}
CollectedEntry(sp) == [id |-> sp.id, duration |-> sp.duration, attrs |-> sp.attrs]

\* C27: while the collection is on, the end of a span appends an entry with
\* the span's id, duration and custom attributes to the collection;
\* startCollecting() and clearCollectedSpans() leave it empty; stopCollecting()
\* and getCollectedSpans() return it.
C27_SpansCollected ==
  [][/\ \A i \in EndingSpans :
          collectSpans => collectedSpans' = Append(collectedSpans, CollectedEntry(spans'[i]))
     /\ op'.name \in {"startCollecting", "clearCollectedSpans"} => collectedSpans' = <<>>
     /\ op'.name \in {"stopCollecting", "getCollectedSpans"} =>
          op'.args[1] = collectedSpans]_vars

\* C28: when a span record is emitted and the console is not suppressed, the
\* record is passed to console.error.
C28_SpanViaConsoleError ==
  \A k \in 1..Len(formatted) :
    (formatted[k].level = "span" /\ ~suppressConsole) =>
      \E w \in 1..Len(written) :
        written[w].sink = <<"console", "error">> /\ written[w].rec = formatted[k]

\* the console methods in place before forwarding began
Baseline == IF IsNull(originalConsole) THEN consoleMethods ELSE Val(originalConsole)

\* C21: a call of console[level] while the forwarder is installed makes one
\* call of postMessage with a console message of that level and returns; when
\* postMessage threw, the arguments are written once, by the method of the
\* same level that was in place before forwarding began, which is no
\* forwarder; when it did not throw, nothing is written locally.
C21_ConsoleForwarded ==
  [][(op'.name = "console.call" /\ IsForwarder(consoleMethods[op'.args[1]])) =>
       /\ Len(posted') = Len(posted) + 1
       /\ SubSeq(posted', 1, Len(posted)) = posted
       /\ posted'[Len(posted')].message.type = "console"
       /\ posted'[Len(posted')].message.level = op'.args[1]
       /\ op'.args[3] = "returned"
       /\ ~IsForwarder(Baseline[op'.args[1]])
       /\ written' = IF posted'[Len(posted')].threw
                     THEN <<[sink |-> <<"console", Baseline[op'.args[1]]>>,
                             rec |-> op'.args[2]]>>
                     ELSE <<>>]_vars

\* console.warn("x", f) whose postMessage threw, written by the native warn
C21_Witness ==
  /\ op.name = "console.call"
  /\ op.args[1] = "warn"
  /\ op.args[3] = "returned"
  /\ Len(posted) = 1
  /\ posted[1].threw
  /\ posted[1].message.level = "warn"
  /\ written = <<[sink |-> <<"console", Native("warn")>>,
                 rec |-> <<Str(<<"x">>), Fn(<<"f">>)>>]>>

\* C29: forwardConsole keeps the methods that were in place before the first
\* forwardConsole and installs forwarders, also after a restoreConsole;
\* restoreConsole puts those methods back and, when no forwardConsole
\* preceded it, changes nothing; a console call made while forwarding is not
\* installed calls postMessage no more.
C29_RestoreConsole ==
  [][/\ op'.name = "forwardConsole" =>
          /\ Baseline' = Baseline
          /\ \A level \in ConsoleLevels : IsForwarder(consoleMethods'[level])
     /\ op'.name = "restoreConsole" =>
          /\ consoleMethods' = Baseline
          /\ IsNull(originalConsole')
          /\ IsNull(originalConsole) => consoleMethods' = consoleMethods
     /\ (op'.name = "console.call" /\ IsNull(originalConsole)) =>
          /\ posted' = posted
          /\ ~IsForwarder(consoleMethods[op'.args[1]])]_vars

\* after a message was forwarded, restoreConsole has put back the patched
\* console.log and the native methods
C29_Witness ==
  /\ op.name = "restoreConsole"
  /\ Len(posted) = 1
  /\ IsNull(originalConsole)
  /\ consoleMethods =
       [level \in ConsoleLevels |-> IF level = "log" THEN Custom(level) ELSE Native(level)]

\* C22: a handler called with a log or console message returns normally; it
\* emits one log record, at the message's level (info for the console level
\* log), when that level passes the threshold and the debug filter allows
\* the namespace, and nothing otherwise.
C22_HandlerNeverRaises ==
  (op.name = "handle" /\ op.args[2].type \in {"log", "console"}) =>
    /\ op.args[3] = "returned"
    /\ Len(formatted) <= 1
    /\ \A r \in 1..Len(formatted) : formatted[r].level = HandlerMethod(op.args[2].level)
    /\ Len(formatted) = 1 <=>
         /\ shouldLog(HandlerMethod(op.args[2].level))
         /\ shouldDebugNamespace(HandlerNamespace(handlers[op.args[1]], op.args[2]))

\* the last operation was a handler call with a span message of the event
HandledSpan(event) ==
  /\ op.name = "handle"
  /\ op.args[2].type = "span"
  /\ op.args[2].event = event

\* C23: when the handler has processed the end message of a worker span whose
\* namespace is permitted span emission, it has emitted exactly one span
\* record; the record's name is the full namespace of the producer's span, it
\* has every custom attribute the producer set with the producer's value and
\* every key of the span's props, with the props' value unless an attribute
\* of the same key replaces it.
C23_RelayedSpanRecord ==
  (HandledSpan("end") /\ SpanPermitted(op.args[2].namespace)) =>
    /\ Len(formatted) = 1
    /\ formatted[1].level = "span"
    /\ \E i \in 1..Len(workerSpans) :
         /\ workerSpans[i].id = op.args[2].spanId
         /\ workerSpans[i].ended
         /\ formatted[1].name = workerSpans[i].name
         /\ \A key \in DOMAIN workerSpans[i].attrs :
              /\ key \in DOMAIN formatted[1].data
              /\ formatted[1].data[key] = workerSpans[i].attrs[key]
         /\ \A key \in DOMAIN workerSpans[i].props :
              /\ key \in DOMAIN formatted[1].data
              /\ key \notin DOMAIN workerSpans[i].attrs =>
                   formatted[1].data[key] = workerSpans[i].props[key]

\* the relayed record of the span a:b with count = 2 and the prop k = 1
C23_Witness ==
  /\ HandledSpan("end")
  /\ op.args[2].spanData = [count |-> 2]
  /\ Len(formatted) = 1
  /\ formatted[1].name = NsA_B
  /\ formatted[1].data["count"] = 2
  /\ formatted[1].data["k"] = 1

C31_RelayedDuration ==
  (HandledSpan("end") /\ Len(formatted) = 1) =>
    formatted[1].data["duration"] = Val(op.args[2].duration)

\* the consumer's spans that were emitted under the name
EmittedAs(name) == {i \in 1..Len(spans) : spans[i].name = name /\ spanRecords[i] = 1}

\* C38: when the end messages of a worker span a:b and of its child a:b:x
\* have both been handled and emitted, the two records have the same trace_id
\* and the child's parent_id is the parent's span_id.
C38_RelayedLinkage ==
  \A p \in EmittedAs(NsA_B), c \in EmittedAs(NsA_B_X) :
    /\ spans[c].traceId = spans[p].traceId
    /\ spans[c].parentId = Some(spans[p].id)

\* C33: setTraceFilter(null) and setTraceFilter([]) clear the trace filter, so
\* that getTraceFilter() returns null, and leave the span switch as it was;
\* enableSpans() and disableSpans() leave the trace filter as it was.
C33_SwitchAndFilterApart ==
  [][/\ \A namespaces \in TraceArgs :
          (~InstallsFilter(namespaces) /\ SetTraceFilter(namespaces)) =>
             /\ IsNull(getTraceFilter')
             /\ spansEnabled' = spansEnabled
     /\ (EnableSpans \/ DisableSpans) =>
          /\ traceFilter' = traceFilter
          /\ getTraceFilter' = getTraceFilter]_vars

\* the filter cleared while spans were enabled: the switch is still on
C33_Witness ==
  /\ op = Call("setTraceFilter", <<TRUE>>)
  /\ IsNull(getTraceFilter)
  /\ spansEnabled

\* C32: logger.span() on the main thread makes the span under every
\* configuration and formats and writes nothing; the first end() of a span
\* emits its record exactly when the span switch, the trace filter and the
\* debug filter in force at that call permit the span's namespace.
C32_DecidedAtEnd ==
  [][/\ op'.name = "span" =>
          /\ formatted' = <<>>
          /\ written' = <<>>
          /\ Len(spans') = Len(spans) + 1
     /\ \A i \in 1..Len(spans) :
          (op' = Call("end", <<i>>) /\ IsNull(spans[i].endTime)) =>
             /\ Len(formatted') \in {0, 1}
             /\ Len(formatted') = 1 <=> SpanPermitted(spans[i].name)]_vars

\* the span a:b, which is only created while a:b is not permitted, has been
\* emitted by its end()
C32_Witness ==
  /\ op = Call("end", <<1>>)
  /\ spans[1].name = NsA_B
  /\ Len(formatted) = 1
  /\ formatted[1].name = NsA_B

\* C36: an assignment of a custom attribute stores the value, replacing the
\* value the key had; the record the first end() of a span emits has every
\* custom attribute with the value stored at that moment and every key of the
\* span's merged props, with the props' value unless an attribute has the
\* same key; an assignment made after the end stores the value as well and
\* emits nothing.
C36_AttributesAtEnd ==
  [][/\ \A i \in 1..Len(spans), key \in AttrKeys, value \in AttrValues :
          SpanDataSet(i, key, value, TRUE) =>
             /\ spans'[i].attrs[key] = value
             /\ \A other \in DOMAIN spans[i].attrs \ {key} :
                  spans'[i].attrs[other] = spans[i].attrs[other]
             /\ formatted' = <<>>
             /\ written' = <<>>
             /\ spanRecords' = spanRecords
     /\ \A i \in 1..Len(spans) :
          (op' = Call("end", <<i>>) /\ IsNull(spans[i].endTime) /\ formatted' # <<>>) =>
             /\ Len(formatted') = 1
             /\ spans'[i].attrs = spans[i].attrs
             /\ \A key \in DOMAIN spans[i].attrs :
                  formatted'[1].data[key] = spans[i].attrs[key]
             /\ \A key \in DOMAIN spans[i].props \ DOMAIN spans[i].attrs :
                  formatted'[1].data[key] = spans[i].props[key]]_vars

\* the record of a span with the props k = 1 and m = 1 and the attributes
\* k = 2 and count = 1
C36_Witness ==
  /\ op = Call("end", <<1>>)
  /\ Len(formatted) = 1
  /\ spans[1].props = [k |-> 1, m |-> 1]
  /\ spans[1].attrs = [k |-> 2, count |-> 1]
  /\ formatted[1].data["k"] = 2
  /\ formatted[1].data["m"] = 1
  /\ formatted[1].data["count"] = 1

\* C37: the record the end of a span emits has the span's own duration,
\* span_id, trace_id and parent_id, whatever the props and the attributes.
C37_StructuralFieldsKept ==
  \A i \in 1..Len(spans) :
    (op = Call("end", <<i>>) /\ Len(formatted) = 1) =>
      /\ formatted[1].data["duration"] = Val(spans[i].duration)
      /\ formatted[1].data["span_id"] = spans[i].id
      /\ formatted[1].data["trace_id"] = spans[i].traceId
      /\ formatted[1].data["parent_id"] = spans[i].parentId

\* C34: on a logger createLogger returned and on every logger made from it by
\* .logger(), the method of a level below the threshold of the moment reads
\* as undefined.
C34_ChildrenConditional ==
  (/\ op.name = "logger.get"
   /\ op.args[2] \in OutputLogLevels
   /\ Rank(op.args[2]) < Rank(currentLogLevel)) =>
     op.args[3] = Undefined

\* the writes of a step that went to writers, and how often to one of them
ToWriter(e) == e.sink[1] = "writer"
Deliveries(writer) ==
  Cardinality({w \in 1..Len(written') : written'[w].sink = <<"writer", writer>>})

C39_ReentrantUnsubscribe ==
  [][formatted' # <<>> =>
       \A writer \in DOMAIN WriterCancels :
         (IndexOf(writers, writer) # 0 /\ IndexOf(writers', writer) # 0) =>
            Deliveries(writer) = 1]_vars

====
